---- MODULE Spec2Model ----
(***************************************************************************)
(* Caching and search-orchestration layer of the lead generation tool:     *)
(* the SQLite tables of lead_generator.py and lead_processor.py, the       *)
(* geocoder with its retry loop, the paged nearby search, the tiled region *)
(* search and the processed-lead cache.                                    *)
(*                                                                         *)
(* Time is counted in hours.  A TEXT column is a record [valid, v]: the    *)
(* text json.dumps wrote for v when valid, an undecodable text otherwise.  *)
(* A datetime.isoformat() string is modelled by the instant it denotes:    *)
(* the strings compare lexicographically as the instants do.               *)
(***************************************************************************)
EXTENDS Integers, Sequences, FiniteSets, TLC

VARIABLES
    now,                  \* datetime.now(), in hours
    ticks,                \* how many times the clock has been advanced
    search_cache,         \* table search_cache: set of rows
    place_details_cache,  \* table place_details_cache: set of rows
    processed_leads,      \* table processed_leads: rows in rowid order
    frame,                \* the call in progress (pc = "idle" when none)
    last                  \* what the last completed call did and returned

vars == <<now, ticks, search_cache, place_details_cache, processed_leads, frame, last>>

-----------------------------------------------------------------------------
(* Bounds of the model *)

MaxTicks == 2

MaxResults == 2

MaxBatch == 2

\* calls per session
MaxCalls == 2

-----------------------------------------------------------------------------
(* Text, time and key helpers *)

Days(n) == n * 24

\* timedelta(days=7) of _get_cached_search
SEARCH_TTL == Days(7)

\* timedelta(days=30) of _get_cached_place_details
DETAILS_TTL == Days(30)

\* str.lower on the alphabet of the model
LowerChar(c) ==
    CASE c = "A" -> "a" [] c = "B" -> "b" [] c = "C" -> "c" [] c = "N" -> "n"
      [] OTHER -> c

lower(s) == [k \in 1..Len(s) |-> LowerChar(s[k])]

RECURSIVE lstrip(_)
lstrip(s) == IF s # <<>> /\ Head(s) = " " THEN lstrip(Tail(s)) ELSE s

RECURSIVE rstrip(_)
rstrip(s) == IF s # <<>> /\ s[Len(s)] = " " THEN rstrip(SubSeq(s, 1, Len(s) - 1)) ELSE s

strip(s) == rstrip(lstrip(s))

\* json.dumps(v): the text that decodes to v
json_dumps(v) == [valid |-> TRUE, v |-> v]

\* a text json.loads cannot decode
CorruptText == [valid |-> FALSE, v |-> <<>>]

\* the mutated serialization, json.dumps(params): the items in the order
\* the dict holds them
param_str_insertion_order(items) == items

\* json.dumps(params, sort_keys=True) of the dict whose items, in insertion
\* order, are the pairs <<key, value>> of `items`; SortedKeys are the keys
\* of the generator's parameter dicts in the order sort_keys puts them
param_str(items) ==
    LET SortedKeys == <<"geocode", "key", "keyword", "location", "radius">>
        present == SelectSeq(SortedKeys,
                             LAMBDA key : \E n \in 1..Len(items) : items[n][1] = key)
    IN  [k \in 1..Len(present) |->
            <<present[k],
              items[CHOOSE n \in 1..Len(items) : items[n][1] = present[k]][2]>>]

\* md5 of the sort_keys serialization: one digest per parameter dict,
\* whatever the order of its fields (digest collisions are not modelled)
_cache_key(params) == [md5 |-> params]

\* what a lookup hands back: a decoded value, None, or a raised exception
Value(v) == [st |-> "value", v |-> v]
None == [st |-> "none", v |-> <<>>]
Raise(e) == [st |-> "raise", v |-> e]

json_loads(text) == IF text.valid THEN Value(text.v) ELSE Raise("JSONDecodeError")

-----------------------------------------------------------------------------
(* Table search_cache *)

\* the mutated lookup: the age test admits an entry exactly 7 days old
_get_cached_search_inclusive(table, params) ==
    LET seven_days_ago == now - SEARCH_TTL
        rows == {r \in table :
                    r.cache_key = _cache_key(params) /\ r.timestamp >= seven_days_ago}
    IN  IF rows # {} THEN json_loads((CHOOSE r \in rows : TRUE).results) ELSE None

\* SELECT results ... WHERE cache_key = ? AND timestamp > ?, then json.loads
_get_cached_search(table, params) ==
    LET seven_days_ago == now - SEARCH_TTL
        rows == {r \in table :
                    r.cache_key = _cache_key(params) /\ r.timestamp > seven_days_ago}
    IN  IF rows # {} THEN json_loads((CHOOSE r \in rows : TRUE).results) ELSE None

\* the mutated save: a row of the same key keeps its timestamp and only its
\* results are updated
_save_to_cache_keep_timestamp(table, params, results) ==
    {r \in table : r.cache_key # _cache_key(params)}
        \cup {[cache_key |-> _cache_key(params),
               search_params |-> json_dumps(params),
               results |-> json_dumps(results),
               timestamp |-> IF \E r \in table : r.cache_key = _cache_key(params)
                             THEN (CHOOSE r \in table :
                                        r.cache_key = _cache_key(params)).timestamp
                             ELSE now]}

\* the mutated save, INSERT OR IGNORE: a row of the same key stays as it is
_save_to_cache_first_wins(table, params, results) ==
    IF \E r \in table : r.cache_key = _cache_key(params) THEN table
    ELSE table \cup {[cache_key |-> _cache_key(params),
                      search_params |-> json_dumps(params),
                      results |-> json_dumps(results),
                      timestamp |-> now]}

\* the mutated save: the statement is never committed
_save_to_cache_nothing(table, params, results) == table

\* INSERT OR REPLACE INTO search_cache: the table after the statement
_save_to_cache(table, params, results) ==
    {r \in table : r.cache_key # _cache_key(params)}
        \cup {[cache_key |-> _cache_key(params),
               search_params |-> json_dumps(params),
               results |-> json_dumps(results),
               timestamp |-> now]}

-----------------------------------------------------------------------------
(* Inputs of the model *)

\* location strings as typed by the user, as sequences of characters
Locations == {<<"a">>, <<" ", "A", " ">>, <<"b">>}

\* coordinate pairs the geocoding endpoint may answer with
Coords == {<<10, 20>>, <<30, 40>>}

NoCoords == <<>>

\* statuses of the geocoding endpoint; RequestException stands for a
\* transport-level failure of requests.get
RetryableStatuses == {"OVER_QUERY_LIMIT", "REQUEST_DENIED"}

GeoResponses ==
    {[status |-> "OK", coords |-> c] : c \in Coords}
        \cup {[status |-> s, coords |-> NoCoords] :
                s \in RetryableStatuses
                        \cup {"ZERO_RESULTS", "INVALID_REQUEST", "RequestException"}}

-----------------------------------------------------------------------------
(* Call frames and call records *)

NoErr == [location |-> <<>>, msg |-> "", status |-> ""]

\* ValueError(f"Could not geocode location: {location} - {str(e)}")
\* the mutated error: the location string is left out of the message
GeoErrorNoLocation(location, msg, status) ==
    [location |-> <<>>, msg |-> msg, status |-> status]

GeoError(location, msg, status) == [location |-> location, msg |-> msg, status |-> status]

NoArgs == [business_type |-> "", max_results |-> 0, splits |-> 0]

IdleFrame ==
    [pc |-> "idle", op |-> "none", location |-> <<>>, args |-> NoArgs,
     attempt |-> 0, coords |-> NoCoords, trace |-> <<>>]

NoCall ==
    [op |-> "none", location |-> <<>>, args |-> NoArgs, ok |-> TRUE, coords |-> NoCoords,
     err |-> NoErr, result |-> <<>>, trace |-> <<>>]

Event(e, x) == [e |-> e, x |-> x]

\* the events of kind e in a trace, in order
RECURSIVE EventsOf(_, _)
EventsOf(trace, e) ==
    IF trace = <<>> THEN <<>>
    ELSE IF Head(trace).e = e THEN <<Head(trace).x>> \o EventsOf(Tail(trace), e)
    ELSE EventsOf(Tail(trace), e)

\* 2 ** n
RECURSIVE Pow2(_)
Pow2(n) == IF n = 0 THEN 1 ELSE 2 * Pow2(n - 1)

-----------------------------------------------------------------------------
(* LeadGenerator.geocode_location *)

max_retries == 3

\* the mutated status chain: ZERO_RESULTS is retried like a quota error
StatusClassRetryZero(status) ==
    CASE status = "OK" -> "ok"
      [] status \in {"ZERO_RESULTS", "OVER_QUERY_LIMIT", "REQUEST_DENIED"} -> "limit"
      [] status = "RequestException" -> "network"
      [] OTHER -> "error"

\* the mutated status chain: a ZERO_RESULTS answer is taken for a success
StatusClassZeroOk(status) ==
    CASE status \in {"OK", "ZERO_RESULTS"} -> "ok"
      [] status \in {"OVER_QUERY_LIMIT", "REQUEST_DENIED"} -> "limit"
      [] status = "RequestException" -> "network"
      [] OTHER -> "error"

\* the mutated status chain: an unknown status is retried like a quota error
StatusClassRetryUnknown(status) ==
    CASE status = "OK" -> "ok"
      [] status = "ZERO_RESULTS" -> "not_found"
      [] status = "RequestException" -> "network"
      [] OTHER -> "limit"

\* the mutated except clause: a transport failure is raised at once
StatusClassNoNetworkRetry(status) ==
    CASE status = "OK" -> "ok"
      [] status = "ZERO_RESULTS" -> "not_found"
      [] status \in {"OVER_QUERY_LIMIT", "REQUEST_DENIED"} -> "limit"
      [] OTHER -> "error"

\* the if/elif chain over geocode_data['status'] and the except clause
StatusClass(status) ==
    CASE status = "OK" -> "ok"
      [] status = "ZERO_RESULTS" -> "not_found"
      [] status \in {"OVER_QUERY_LIMIT", "REQUEST_DENIED"} -> "limit"
      [] status = "RequestException" -> "network"
      [] OTHER -> "error"

\* the mutated backoff: a constant delay
BackoffConstant(attempt) == 1

\* time.sleep(2 ** attempt)
Backoff(attempt) == Pow2(attempt)

\* the mutated normalisation: trims but keeps the case
NormalizeLocationKeepCase(location) == strip(location)

\* location.strip().lower()
NormalizeLocation(location) == lower(strip(location))

GeocodeParams(location) == [geocode |-> NormalizeLocation(location)]

\* The call is over: a top-level geocode_location hands its outcome to the
\* caller; inside split_region_search a failure is caught by the outer
\* handler, which reports it and returns [] (ok: the call returned, err: the
\* error it reported), and a success moves on to the tiles.
GeocodeReturn(op, location, args, ok, coords, err, trace) ==
    IF op = "geocode_location" \/ ~ok
    THEN /\ frame' = IdleFrame
         /\ last' = [op |-> op, location |-> location, args |-> args,
                     ok |-> (ok \/ op # "geocode_location"),
                     coords |-> coords, err |-> err, result |-> <<>>, trace |-> trace]
    ELSE /\ frame' = [pc |-> "tiles", op |-> op, location |-> location, args |-> args,
                      attempt |-> 0, coords |-> coords, trace |-> trace]
         /\ UNCHANGED last

\* lines 122-132: normalise, look the location up, return on a truthy hit
GeocodeEnter(op, location, args) ==
    LET cached_result == _get_cached_search(search_cache, GeocodeParams(location))
        trace == <<Event("geocode_lookup", NormalizeLocation(location))>>
    IN  /\ frame.pc = "idle"
        /\ UNCHANGED <<now, ticks, search_cache, place_details_cache, processed_leads>>
        /\ CASE cached_result.st = "raise" ->
                    GeocodeReturn(op, location, args, FALSE, NoCoords,
                                  GeoError(location, cached_result.v, ""), trace)
             [] cached_result.st = "value" /\ cached_result.v # <<>> ->
                    GeocodeReturn(op, location, args, TRUE,
                                  <<cached_result.v[1], cached_result.v[2]>>, NoErr, trace)
             [] OTHER ->
                    /\ frame' = [pc |-> "geocode", op |-> op, location |-> location,
                                 args |-> args, attempt |-> 0, coords |-> NoCoords,
                                 trace |-> trace]
                    /\ UNCHANGED last

geocode_location(location) == GeocodeEnter("geocode_location", location, NoArgs)

\* one iteration of the retry loop, lines 139-168: the request and what the
\* answer leads to
GeocodeAttempt(resp) ==
    LET attempt == frame.attempt
        trace == Append(frame.trace, Event("geocode_request", resp.status))
        fail(msg) ==
            /\ GeocodeReturn(frame.op, frame.location, frame.args, FALSE, NoCoords,
                             GeoError(frame.location, msg, resp.status), trace)
            /\ UNCHANGED search_cache
        retry(msg) ==
            IF attempt < max_retries - 1
            THEN /\ frame' = [frame EXCEPT !.attempt = attempt + 1,
                                !.trace = Append(trace, Event("sleep", Backoff(attempt)))]
                 /\ UNCHANGED <<last, search_cache>>
            ELSE fail(msg)
    IN  /\ frame.pc = "geocode"
        /\ UNCHANGED <<now, ticks, place_details_cache, processed_leads>>
        /\ CASE StatusClass(resp.status) = "ok" ->
                    /\ search_cache' = _save_to_cache(search_cache,
                                            GeocodeParams(frame.location), resp.coords)
                    /\ GeocodeReturn(frame.op, frame.location, frame.args, TRUE,
                                     resp.coords, NoErr, trace)
             [] StatusClass(resp.status) = "not_found" -> fail("Location not found")
             [] StatusClass(resp.status) = "limit" ->
                    retry("API limit reached or request denied")
             [] StatusClass(resp.status) = "network" -> retry("Network error")
             [] OTHER -> fail("Geocoding error")

-----------------------------------------------------------------------------
(* Table place_details_cache and LeadGenerator.get_place_details *)

\* SELECT details ... WHERE place_id = ? AND timestamp > ?, then json.loads
_get_cached_place_details(table, place_id) ==
    LET thirty_days_ago == now - DETAILS_TTL
        rows == {r \in table : r.place_id = place_id /\ r.timestamp > thirty_days_ago}
    IN  IF rows # {} THEN json_loads((CHOOSE r \in rows : TRUE).details) ELSE None

\* INSERT OR REPLACE INTO place_details_cache: the table after the statement
_save_place_details(table, place_id, details) ==
    {r \in table : r.place_id # place_id}
        \cup {[place_id |-> place_id, details |-> json_dumps(details), timestamp |-> now]}

\* the empty dict and the empty list, both falsy
Empty == <<>>

\* the mutated get_place_details: the table is not looked up first
get_place_details_uncached(dc, place_id, answer) ==
    LET asked == <<Event("details_request", place_id)>>
    IN  CASE answer.status = "RequestException" ->
                [details |-> Empty, dc |-> dc, trace |-> asked, exc |-> "RequestException"]
          [] answer.status = "OK" ->
                [details |-> answer.result,
                 dc |-> _save_place_details(dc, place_id, answer.result),
                 trace |-> asked, exc |-> ""]
          [] OTHER ->
                [details |-> Empty, dc |-> dc, trace |-> asked, exc |-> ""]

\* get_place_details against the details table dc, `answer` being what the
\* details endpoint says for this place: the details, the table afterwards,
\* the requests made, and the exception that escapes, if any
get_place_details(dc, place_id, answer) ==
    LET cached_details == _get_cached_place_details(dc, place_id)
        asked == <<Event("details_request", place_id)>>
    IN  CASE cached_details.st = "raise" ->
                [details |-> Empty, dc |-> dc, trace |-> <<>>, exc |-> cached_details.v]
          [] cached_details.st = "value" /\ cached_details.v # Empty ->
                [details |-> cached_details.v, dc |-> dc, trace |-> <<>>, exc |-> ""]
          [] OTHER ->
                CASE answer.status = "RequestException" ->
                        [details |-> Empty, dc |-> dc, trace |-> asked,
                         exc |-> "RequestException"]
                  [] answer.status = "OK" ->
                        [details |-> answer.result,
                         dc |-> _save_place_details(dc, place_id, answer.result),
                         trace |-> asked, exc |-> ""]
                  [] OTHER ->
                        [details |-> Empty, dc |-> dc, trace |-> asked, exc |-> ""]

-----------------------------------------------------------------------------
(* LeadGenerator._search_places *)

\* lines 339-345; the details of the model carry their four fields or none,
\* and details.get falls back on the hit's name, '' and 'N/A'
MakeLead(place, details) ==
    IF details = Empty
    THEN [company_name |-> place.name, full_address |-> <<>>, Phone |-> "N/A",
          Website |-> "N/A", place_id |-> place.place_id]
    ELSE [company_name |-> details.name,
          full_address |-> details.formatted_address,
          Phone |-> details.formatted_phone_number,
          Website |-> details.website,
          place_id |-> place.place_id]

\* the mutated test: a lead is built whatever the details are
ResolvedAlways(details) == TRUE

\* line 338, if details: the dict is not empty
Resolved(details) == details # Empty

\* the mutated for loop: the budget is not tested between two places
RECURSIVE PlacesLoopNoBudget(_, _, _, _)
PlacesLoopNoBudget(st, places, answers, max_results) ==
    IF places = <<>> THEN st
    ELSE LET place == Head(places)
             got == get_place_details(st.dc, place.place_id, answers[place.place_id])
             st1 == [st EXCEPT !.dc = got.dc, !.trace = st.trace \o got.trace]
             st2 == IF Resolved(got.details)
                    THEN [st1 EXCEPT !.leads = Append(@, MakeLead(place, got.details)),
                                     !.total_results = @ + 1]
                    ELSE st1
         IN  IF got.exc # "" THEN [st1 EXCEPT !.exc = got.exc]
             ELSE PlacesLoopNoBudget(
                    [st2 EXCEPT !.trace = Append(@, Event("pacing_sleep", place.place_id))],
                    Tail(places), answers, max_results)

\* the for loop over data['results'], lines 331-350
RECURSIVE PlacesLoop(_, _, _, _)
PlacesLoop(st, places, answers, max_results) ==
    IF places = <<>> \/ st.total_results >= max_results THEN st
    ELSE LET place == Head(places)
             got == get_place_details(st.dc, place.place_id, answers[place.place_id])
             st1 == [st EXCEPT !.dc = got.dc, !.trace = st.trace \o got.trace]
             st2 == IF Resolved(got.details)
                    THEN [st1 EXCEPT !.leads = Append(@, MakeLead(place, got.details)),
                                     !.total_results = @ + 1]
                    ELSE st1
         IN  IF got.exc # "" THEN [st1 EXCEPT !.exc = got.exc]
             ELSE PlacesLoop([st2 EXCEPT !.trace = Append(@, Event("pacing_sleep", place.place_id))],
                             Tail(places), answers, max_results)

\* what the service answers to a page token it did not issue
NoMorePages == [status |-> "INVALID_REQUEST", results |-> <<>>, next_page_token |-> FALSE]

\* the mutated request: the page token is sent at once
RequestWithoutSettle(trace, next_page_token) ==
    Append(trace, Event("nearby_request", next_page_token))

\* lines 318-323: with a page token, time.sleep(2), then requests.get
SettleThenRequest(trace, next_page_token) ==
    Append(IF next_page_token THEN Append(trace, Event("settle_sleep", 2)) ELSE trace,
           Event("nearby_request", next_page_token))

\* the while loop, lines 309-354: pages are the answers the service gives
\* to the successive requests of this search
RECURSIVE PagesLoop(_, _, _, _, _)
PagesLoop(st, pages, next_page_token, answers, max_results) ==
    IF st.total_results >= max_results THEN st
    ELSE LET st1 == [st EXCEPT !.trace = SettleThenRequest(st.trace, next_page_token)]
             data == IF pages = <<>> THEN NoMorePages ELSE Head(pages)
         IN  CASE data.status = "RequestException" -> [st1 EXCEPT !.exc = "RequestException"]
               [] data.status # "OK" -> st1
               [] OTHER ->
                    LET st2 == PlacesLoop(st1, data.results, answers, max_results)
                    IN  IF st2.exc # "" \/ ~data.next_page_token THEN st2
                        ELSE PagesLoop(st2, Tail(pages), TRUE, answers, max_results)

\* _search_places: the leads, the details table afterwards, the requests
\* made, and the exception that escapes, if any
_search_places(dc, pages, answers, max_results) ==
    PagesLoop([leads |-> <<>>, total_results |-> 0, dc |-> dc, trace |-> <<>>, exc |-> ""],
              pages, FALSE, answers, max_results)

-----------------------------------------------------------------------------
(* LeadGenerator.split_region_search *)

\* the default radius, in miles
radius == 20

api_key == "KEY"

\* the default number of splits per axis; main.py never passes another
default_splits == 2

Max(a, b) == IF a >= b THEN a ELSE b

Min(a, b) == IF a <= b THEN a ELSE b

\* math.ceil(a / b) for a >= 0 and b > 0
Ceil(a, b) == (a + b - 1) \div b

\* max(20, math.ceil(max_results / (splits * splits)))
results_per_region(max_results, splits) == Max(20, Ceil(max_results, splits * splits))

\* Coordinates are counted in units of 1/(12 * 69) degree, so that
\* degree_radius = radius / 69.0 is 12 * radius units and the offsets of
\* the tiles are whole numbers for 1 to 4 splits.
degree_radius == 12 * radius

\* lat - (degree_radius/2) + (i * degree_radius/splits)
TileCenter(lat, i, splits) == lat - (degree_radius \div 2) + ((i * degree_radius) \div splits)

\* (radius / splits) * 1609.34, in units of 1609.34 / 12 metres
sub_radius(splits) == (12 * radius) \div splits

\* search_params of the tile in row i, column j
TileParams(coords, i, j, business_type, splits) ==
    [location |-> <<TileCenter(coords[1], i, splits), TileCenter(coords[2], j, splits)>>,
     radius |-> sub_radius(splits),
     keyword |-> business_type,
     key |-> api_key]

\* the mutated merge loop: every lead is appended, seen or not
RECURSIVE MergeLoopNoDedup(_, _, _)
MergeLoopNoDedup(acc, region_leads, max_results) ==
    IF region_leads = <<>> THEN acc
    ELSE LET lead == Head(region_leads)
             acc1 == [all_leads |-> Append(acc.all_leads, lead),
                      seen_place_ids |-> acc.seen_place_ids \cup {lead.place_id},
                      returned |-> Len(acc.all_leads) + 1 >= max_results]
         IN  IF acc1.returned THEN acc1
             ELSE MergeLoopNoDedup(acc1, Tail(region_leads), max_results)

\* the for loop over region_leads, lines 282-290: returned says that the
\* maximum was reached and the search returns
RECURSIVE MergeLoop(_, _, _)
MergeLoop(acc, region_leads, max_results) ==
    IF region_leads = <<>> THEN acc
    ELSE LET lead == Head(region_leads)
             acc1 == [all_leads |-> Append(acc.all_leads, lead),
                      seen_place_ids |-> acc.seen_place_ids \cup {lead.place_id},
                      returned |-> Len(acc.all_leads) + 1 >= max_results]
         IN  IF lead.place_id \notin acc.seen_place_ids
             THEN IF acc1.returned THEN acc1
                  ELSE MergeLoop(acc1, Tail(region_leads), max_results)
             ELSE MergeLoop(acc, Tail(region_leads), max_results)

\* the two nested loops over the tiles, lines 249-293, from tile t on (tiles
\* are numbered 1.. in row-major order); st.status is "running", "returned"
\* (the maximum was reached) or "raised" (an exception left the loop); the
\* trace records the list each tile delivered and the size of all_leads
\* after its merge
RECURSIVE TilesLoop(_, _, _)
TilesLoop(st, t, call) ==
    IF t > call.splits * call.splits \/ st.status # "running" THEN st
    ELSE LET i == (t - 1) \div call.splits
             j == (t - 1) % call.splits
             search_params == TileParams(call.coords, i, j, call.business_type, call.splits)
             cached_results == _get_cached_search(st.sc, search_params)
             looked == Append(st.trace, Event("tile_lookup", t))
             found == _search_places(st.dc, call.world.nearby[t], call.world.details,
                                     results_per_region(call.max_results, call.splits))
             hit == cached_results.st = "value" /\ cached_results.v # Empty
             region_leads == IF hit THEN cached_results.v ELSE found.leads
             merged == MergeLoop([all_leads |-> st.all_leads,
                                  seen_place_ids |-> st.seen_place_ids,
                                  returned |-> FALSE],
                                 region_leads, call.max_results)
         IN  CASE cached_results.st = "raise" ->
                    [st EXCEPT !.trace = looked, !.status = "raised", !.exc = cached_results.v]
               [] ~hit /\ found.exc # "" ->
                    [st EXCEPT !.trace = looked \o found.trace, !.dc = found.dc,
                               !.status = "raised", !.exc = found.exc]
               [] OTHER ->
                    TilesLoop(
                        [all_leads |-> merged.all_leads,
                         seen_place_ids |-> merged.seen_place_ids,
                         sc |-> IF hit THEN st.sc
                                ELSE _save_to_cache(st.sc, search_params, region_leads),
                         dc |-> IF hit THEN st.dc ELSE found.dc,
                         trace |-> (IF hit THEN looked
                                    ELSE Append(looked \o found.trace,
                                                Event("tile_save", t)))
                                    \o <<Event("tile_leads", region_leads),
                                          Event("merged", Len(merged.all_leads))>>,
                         status |-> IF merged.returned THEN "returned" ELSE "running",
                         exc |-> ""],
                        t + 1, call)

\* all_leads[:max_results]
Truncate(all_leads, max_results) == SubSeq(all_leads, 1, Min(max_results, Len(all_leads)))

\* split_region_search up to the geocoding of the location, lines 228-236
split_region_search(business_type, location, max_results, splits) ==
    GeocodeEnter("split_region_search", location,
                 [business_type |-> business_type, max_results |-> max_results,
                  splits |-> splits])

\* split_region_search from the tiles on, lines 238-300: `world` is what the
\* places service answers during this call; an exception that leaves the
\* loop is caught by the outer handler, which returns []
RegionTiles(world) ==
    /\ frame.pc = "tiles"
    /\ frame.op = "split_region_search"
    /\ \E st \in {TilesLoop([all_leads |-> <<>>, seen_place_ids |-> {},
                               sc |-> search_cache, dc |-> place_details_cache,
                               trace |-> <<>>, status |-> "running", exc |-> ""],
                              1,
                              [coords |-> frame.coords,
                               business_type |-> frame.args.business_type,
                               max_results |-> frame.args.max_results,
                               splits |-> frame.args.splits,
                               world |-> world])} :
        /\ search_cache' = st.sc
        /\ place_details_cache' = st.dc
        /\ frame' = IdleFrame
        /\ last' = [op |-> frame.op, location |-> frame.location, args |-> frame.args,
                    ok |-> TRUE, coords |-> frame.coords,
                    err |-> IF st.status = "raised"
                            THEN GeoError(frame.location, st.exc, "")
                            ELSE NoErr,
                    result |-> IF st.status = "raised" THEN <<>>
                               ELSE Truncate(st.all_leads, frame.args.max_results),
                    trace |-> frame.trace \o st.trace]
    /\ UNCHANGED <<now, ticks, processed_leads>>

-----------------------------------------------------------------------------
(* Environment *)

\* the clock advances by d hours between two calls
Tick(d) ==
    /\ frame.pc = "idle"
    /\ ticks < MaxTicks
    /\ now' = now + d
    /\ ticks' = ticks + 1
    /\ last' = NoCall
    /\ UNCHANGED <<search_cache, place_details_cache, processed_leads, frame>>

\* the stored results text of a search_cache row becomes undecodable
CorruptSearchRow ==
    /\ frame.pc = "idle"
    /\ \E r \in search_cache :
        /\ r.results.valid
        /\ search_cache' = (search_cache \ {r}) \cup {[r EXCEPT !.results = CorruptText]}
    /\ last' = NoCall
    /\ UNCHANGED <<now, ticks, place_details_cache, processed_leads, frame>>

-----------------------------------------------------------------------------
(* Specifications *)

Init ==
    /\ now = 0
    /\ ticks = 0
    /\ search_cache = {}
    /\ place_details_cache = {}
    /\ processed_leads = <<>>
    /\ frame = IdleFrame
    /\ last = NoCall

\* the geocoder alone: calls, the retry loop, time passing past the TTL
\* the clock is read 6d23h after the start, 2h later, 6d23h later, ...
GeoTick == Tick(IF ticks % 2 = 0 THEN Days(7) - 1 ELSE 2)

GeoCall == \E location \in Locations : geocode_location(location)

GeoStep == \E resp \in GeoResponses : GeocodeAttempt(resp)

NextGeo == GeoCall \/ GeoStep \/ GeoTick \/ CorruptSearchRow

SpecGeo == Init /\ [][NextGeo]_vars

\* the places service, as it answers during one call: nearby[t] are the
\* pages it gives for tile t, details[p] its answer for place p
Places == 1..24

Stub(p) == [place_id |-> p, name |-> <<"stub", p>>]

PlaceDetails(p, v) ==
    [name |-> <<"name", p, v>>, formatted_address |-> <<"address", p>>,
     formatted_phone_number |-> "N/A", website |-> "N/A"]

Page(places, next_page_token) ==
    [status |-> "OK", results |-> [k \in 1..Len(places) |-> Stub(places[k])],
     next_page_token |-> next_page_token]

NoPage(status) == [status |-> status, results |-> <<>>, next_page_token |-> FALSE]

DetailsOK(v) == [p \in Places |-> [status |-> "OK", result |-> PlaceDetails(p, v)]]

NoDetails(status) == [status |-> status, result |-> Empty]

\* two pages on tile 1, places shared between pages and between tiles, an
\* empty tile
WorldOverlap ==
    [nearby |-> <<
        <<Page(<<1, 2>>, TRUE), Page(<<2, 3>>, FALSE)>>,
        <<Page(<<3, 1>>, FALSE)>>,
        <<NoPage("ZERO_RESULTS")>>,
        <<Page(<<4>>, FALSE)>> >>,
     details |-> DetailsOK(1)]

\* a later page refused, a place without details, a request that fails
WorldFailing ==
    [nearby |-> <<
        <<Page(<<1, 2>>, TRUE), NoPage("OVER_QUERY_LIMIT")>>,
        <<NoPage("RequestException")>>,
        <<Page(<<3>>, FALSE)>>,
        <<Page(<<4>>, FALSE)>> >>,
     details |-> [DetailsOK(1) EXCEPT ![2] = NoDetails("NOT_FOUND")]]

\* six places per tile, no overlap
WorldSixPerTile ==
    [nearby |-> [t \in 1..4 |-> <<Page([k \in 1..6 |-> 6 * (t - 1) + k], FALSE)>>],
     details |-> DetailsOK(1)]

Worlds == {WorldOverlap, WorldFailing, WorldSixPerTile}

BusinessTypes == {"dentist"}

\* the stored details text of a place_details_cache row is damaged and no
\* longer decodes
CorruptDetailsRow ==
    /\ frame.pc = "idle"
    /\ \E r \in place_details_cache :
        /\ r.details.valid
        /\ place_details_cache' =
                (place_details_cache \ {r}) \cup {[r EXCEPT !.details.valid = FALSE]}
    /\ last' = NoCall
    /\ UNCHANGED <<now, ticks, search_cache, processed_leads, frame>>

\* the tiled search: one location, a geocoder that answers or finds
\* nothing, the places service as one of the worlds above
RegionCall ==
    \E business_type \in BusinessTypes, max_results \in 0..MaxResults \cup {10} :
        split_region_search(business_type, <<"a">>, max_results, default_splits)

RegionGeoResponses ==
    {[status |-> "OK", coords |-> <<10, 20>>], [status |-> "ZERO_RESULTS", coords |-> NoCoords]}

RegionGeoStep == \E resp \in RegionGeoResponses : GeocodeAttempt(resp)

RegionStep == \E world \in Worlds : RegionTiles(world)

\* the clock is read once more, 7d1h after the start
RegionTick == ticks = 0 /\ Tick(Days(7) + 1)

NextRegion == RegionCall \/ RegionGeoStep \/ RegionStep \/ RegionTick

SpecRegion == Init /\ [][NextRegion]_vars

\* the generator over a cache file that gets damaged between calls, one
\* stored text at a time
DamagedGeoCall == geocode_location(<<"a">>)

DamagedSearchRow == (\A r \in search_cache : r.results.valid) /\ CorruptSearchRow

DamagedDetailsRow ==
    (\A r \in place_details_cache : r.details.valid) /\ CorruptDetailsRow

NextDamaged ==
    DamagedGeoCall \/ RegionCall \/ RegionGeoStep \/ RegionStep \/ DamagedSearchRow
        \/ DamagedDetailsRow

SpecDamaged == Init /\ [][NextDamaged]_vars

\* the search cache under a clock read at hour granularity: every request
\* is answered OK, so each call either hits the cache or writes an entry
TTLTick == \E d \in {1, 2, Days(7) - 1} : Tick(d)

TTLStep == \E resp \in {r \in GeoResponses : r.status = "OK"} : GeocodeAttempt(resp)

NextTTL == GeoCall \/ TTLStep \/ TTLTick

SpecTTL == Init /\ [][NextTTL]_vars

-----------------------------------------------------------------------------
(* LeadProcessor: table processed_leads and process_lead *)

\* str(value).strip(); the leads of the model carry strings, never None
_clean_string(value) == strip(value)

\* md5 of f"{company}|{website}", both cleaned and lowercased: one digest
\* per pair (digest collisions are not modelled)
_lead_cache_key(lead) ==
    [md5 |-> <<lower(_clean_string(lead.company_name)),
               lower(_clean_string(lead.Website))>>]

LeadWebsite(lead) == lower(_clean_string(lead.Website))

\* the rows of SELECT ... WHERE lead_id = ? OR website = ?, in the order of
\* the table scan
MatchingLeadRows(table, lead) ==
    SelectSeq(table, LAMBDA r : r.lead_id = _lead_cache_key(lead)
                                    \/ r.website = LeadWebsite(lead))

\* fetchone and json.loads; the bare except turns a decoding error into None
_get_cached_lead(table, lead) ==
    LET rows == MatchingLeadRows(table, lead)
    IN  IF rows = <<>> THEN None
        ELSE IF Head(rows).processed_data.valid THEN Value(Head(rows).processed_data.v)
        ELSE None

\* the mutated statement, a plain INSERT into a table without primary key:
\* the row of the same lead_id stays beside the new one
LeadProcessor_save_to_cache_insert(table, lead, processed_data) ==
    Append(table, [lead_id |-> _lead_cache_key(lead),
                   website |-> LeadWebsite(lead),
                   processed_data |-> json_dumps(processed_data),
                   timestamp |-> now])

\* the mutated statement, INSERT OR IGNORE: a row of the same lead_id stays
LeadProcessor_save_to_cache_ignore(table, lead, processed_data) ==
    IF \E k \in 1..Len(table) : table[k].lead_id = _lead_cache_key(lead)
    THEN table
    ELSE Append(table, [lead_id |-> _lead_cache_key(lead),
                        website |-> LeadWebsite(lead),
                        processed_data |-> json_dumps(processed_data),
                        timestamp |-> now])

\* LeadProcessor._save_to_cache, INSERT OR REPLACE INTO processed_leads: the
\* row of the same lead_id goes, the new row is the last of the table
LeadProcessor_save_to_cache(table, lead, processed_data) ==
    Append(SelectSeq(table, LAMBDA r : r.lead_id # _lead_cache_key(lead)),
           [lead_id |-> _lead_cache_key(lead),
            website |-> LeadWebsite(lead),
            processed_data |-> json_dumps(processed_data),
            timestamp |-> now])

\* the mutated result: the exception's message is dropped
_create_empty_result_silent(lead, error) ==
    [company_name |-> _clean_string(lead.company_name),
     Website |-> _clean_string(lead.Website),
     processed |-> FALSE, owner_name |-> "", error |-> ""]

\* the fields of the result that the model follows
_create_empty_result(lead, error) ==
    [company_name |-> _clean_string(lead.company_name),
     Website |-> _clean_string(lead.Website),
     processed |-> FALSE, owner_name |-> "", error |-> error]

\* the result built at lines 155-171 from the lead and the analysis
EnrichedResult(lead, analysis) ==
    [company_name |-> _clean_string(lead.company_name),
     Website |-> _clean_string(lead.Website),
     processed |-> TRUE, owner_name |-> analysis.owner_name, error |-> ""]

\* lines 118-136: the collaborators in the order they are called, up to the
\* one that raises; `answer` says which one raises, if any, and what the
\* analyzer finds
EnrichmentTrace(lead, answer) ==
    LET website == _clean_string(lead.Website)
    IN  CASE answer.raises = "scraper" -> <<Event("scrape_website", website)>>
          [] answer.raises = "analyzer" ->
                <<Event("scrape_website", website), Event("extract_emails", website),
                  Event("analyze_content", website)>>
          [] OTHER ->
                <<Event("scrape_website", website), Event("extract_emails", website),
                  Event("analyze_content", website),
                  Event("find_emails_with_llm", website)>>

\* what the lookup of line 112 meets: a decodable row, an undecodable one,
\* or none
LeadLookup(table, lead) ==
    LET rows == MatchingLeadRows(table, lead)
    IN  IF rows = <<>> THEN "miss"
        ELSE IF Head(rows).processed_data.valid THEN "hit" ELSE "corrupt"

\* the mutated test: only the lowercase marker is recognised
UsableWebsiteCaseSensitive(website) ==
    ~(website = <<>> \/ website = <<"n", "/", "a">>)

\* line 107 negated: the cleaned website is neither empty nor 'n/a'
UsableWebsite(website) ==
    ~(website = <<>> \/ lower(website) = <<"n", "/", "a">>)

\* the mutated handler: the error result is stored like a processed one
except_Exception_saved(table, lead, e) ==
    [result |-> _create_empty_result(lead, e),
     table |-> LeadProcessor_save_to_cache(table, lead, _create_empty_result(lead, e))]

\* lines 178-180, 'except Exception as e': the error result is returned and
\* the table is left as it was
except_Exception(table, lead, e) ==
    [result |-> _create_empty_result(lead, e), table |-> table]

\* process_lead against the table: the result, the table afterwards and
\* what was called on the way
ProcessLeadOutcome(table, lead, use_cache, answer) ==
    LET website == _clean_string(lead.Website)
        cached_result == _get_cached_lead(table, lead)
        looked == IF use_cache THEN <<Event("lead_lookup", LeadLookup(table, lead))>>
                  ELSE <<>>
        result == EnrichedResult(lead, answer)
    IN  CASE ~UsableWebsite(website) ->
                [result |-> _create_empty_result(lead, ""), table |-> table,
                 trace |-> <<>>]
          [] use_cache /\ cached_result.st = "value" ->
                [result |-> cached_result.v, table |-> table, trace |-> looked]
          [] answer.raises # "none" ->
                [result |-> except_Exception(table, lead, answer.raises).result,
                 table |-> except_Exception(table, lead, answer.raises).table,
                 trace |-> looked \o EnrichmentTrace(lead, answer)]
          [] OTHER ->
                [result |-> result,
                 table |-> LeadProcessor_save_to_cache(table, lead, result),
                 trace |-> Append(looked \o EnrichmentTrace(lead, answer),
                                  Event("lead_save", _lead_cache_key(lead)))]

process_lead(lead, use_cache, answer) ==
    /\ frame.pc = "idle"
    /\ \E out \in {ProcessLeadOutcome(processed_leads, lead, use_cache, answer)} :
        /\ processed_leads' = out.table
        /\ last' = [op |-> "process_lead", location |-> <<>>,
                    args |-> [lead |-> lead, use_cache |-> use_cache],
                    ok |-> TRUE, coords |-> NoCoords, err |-> NoErr,
                    result |-> out.result, trace |-> out.trace]
    /\ UNCHANGED <<now, ticks, search_cache, place_details_cache, frame>>

\* the mutated test of the batch loop: every website seen before is skipped
SkipRowSeen(website, processed_websites) == website \in processed_websites

\* line 229: website in processed_websites and website and website != 'n/a'
SkipRow(website, processed_websites) ==
    /\ website \in processed_websites
    /\ website # <<>>
    /\ website # <<"n", "/", "a">>

\* LeadProcessor.process_leads, the loop of lines 224-246 from row k on; a
\* row is a lead and what the collaborators would answer for it. st carries
\* the table, processed_websites, results and what happened so far
RECURSIVE LeadsLoop(_, _, _, _)
LeadsLoop(leads, use_cache, k, st) ==
    IF k > Len(leads) THEN st
    ELSE LET lead_dict == leads[k].lead
             website == lower(_clean_string(lead_dict.Website))
             out == ProcessLeadOutcome(st.table, lead_dict, use_cache, leads[k].answer)
         IN  IF SkipRow(website, st.processed_websites)
             THEN LeadsLoop(leads, use_cache, k + 1,
                            [st EXCEPT !.trace = Append(@, Event("skip_duplicate", k))])
             ELSE LeadsLoop(leads, use_cache, k + 1,
                            [table |-> out.table,
                             processed_websites |->
                                IF website # <<>>
                                THEN st.processed_websites \cup {website}
                                ELSE st.processed_websites,
                             results |-> Append(st.results, out.result),
                             trace |-> (st.trace \o <<Event("process_lead", k)>>)
                                            \o out.trace])

\* LeadProcessor.process_leads: the loop, then the frame of the results in
\* the order they were appended. The batch cleaning of lines 260-271 copies
\* each record and rewrites its two email columns only, which the records
\* of the model do not carry.
process_leads(leads, use_cache) ==
    /\ frame.pc = "idle"
    /\ \E st \in {LeadsLoop(leads, use_cache, 1,
                             [table |-> processed_leads, processed_websites |-> {},
                              results |-> <<>>, trace |-> <<>>])} :
        /\ processed_leads' = st.table
        /\ last' = [op |-> "process_leads", location |-> <<>>,
                    args |-> [leads |-> leads, use_cache |-> use_cache],
                    ok |-> TRUE, coords |-> NoCoords, err |-> NoErr,
                    result |-> st.results, trace |-> st.trace]
    /\ UNCHANGED <<now, ticks, search_cache, place_details_cache, frame>>

\* the stored processed_data text of a row is damaged and no longer decodes
CorruptLeadRow ==
    /\ frame.pc = "idle"
    /\ \E k \in 1..Len(processed_leads) :
        /\ processed_leads[k].processed_data.valid
        /\ processed_leads' =
                [processed_leads EXCEPT ![k].processed_data.valid = FALSE]
    /\ last' = NoCall
    /\ UNCHANGED <<now, ticks, search_cache, place_details_cache, frame>>

-----------------------------------------------------------------------------
(* verify_cache *)

TableNames == {"search_cache", "place_details_cache", "processed_leads"}

\* lines 489-511: the keys of the rows whose text raises JSONDecodeError,
\* for the two tables the function reads
CorruptKeysFound ==
    [search_cache |->
        {r.cache_key : r \in {q \in search_cache :
                                ~q.search_params.valid \/ ~q.results.valid}},
     place_details_cache |->
        {r.place_id : r \in {q \in place_details_cache : ~q.details.valid}}]

\* the dict corrupted_entries: a table is a key of it only when one of its
\* rows failed to decode
corrupted_entries ==
    [t \in {n \in {"search_cache", "place_details_cache"} : CorruptKeysFound[n] # {}}
        |-> CorruptKeysFound[t]]

\* SELECT COUNT(*) for every table of the database file
table_counts ==
    [t \in TableNames |->
        CASE t = "search_cache" -> Cardinality(search_cache)
          [] t = "place_details_cache" -> Cardinality(place_details_cache)
          [] OTHER -> Len(processed_leads)]

verify_cache ==
    /\ frame.pc = "idle"
    /\ last' = [op |-> "verify_cache", location |-> <<>>, args |-> NoArgs, ok |-> TRUE,
                coords |-> NoCoords, err |-> NoErr,
                result |-> [table_counts |-> table_counts,
                            corrupted_entries |-> corrupted_entries,
                            cache_health |-> IF DOMAIN corrupted_entries = {}
                                             THEN "good" ELSE "corrupted"],
                trace |-> <<>>]
    /\ UNCHANGED <<now, ticks, search_cache, place_details_cache, processed_leads, frame>>

-----------------------------------------------------------------------------
(* Specifications of the lead cache and of the integrity check *)

Lead(company_name, website) == [company_name |-> company_name, Website |-> website]

\* "Ac" at "a.c", the same lead typed "AC " at " A.c", another company at
\* the same website, a lead without website and one marked " N/a"
LeadAcme == Lead(<<"A", "c">>, <<"a", ".", "c">>)

LeadAcmeTyped == Lead(<<"A", "C", " ">>, <<" ", "A", ".", "c">>)

LeadOther == Lead(<<"B">>, <<"a", ".", "c">>)

Leads == {LeadAcme, LeadAcmeTyped, LeadOther, Lead(<<"B">>, <<>>),
          Lead(<<"B">>, <<" ", "N", "/", "a">>)}

\* what the collaborators do during one call
EnrichmentAnswers ==
    {[raises |-> "none", owner_name |-> "ann"], [raises |-> "none", owner_name |-> "bob"],
     [raises |-> "scraper", owner_name |-> ""], [raises |-> "analyzer", owner_name |-> ""]}

LeadCall ==
    \E lead \in Leads, use_cache \in BOOLEAN, answer \in EnrichmentAnswers :
        process_lead(lead, use_cache, answer)

\* one stored text at a time is damaged
DamagedLeadRow ==
    /\ \A k \in 1..Len(processed_leads) : processed_leads[k].processed_data.valid
    /\ CorruptLeadRow

NextLead == LeadCall \/ DamagedLeadRow

SpecLead == Init /\ [][NextLead]_vars

\* batches of at most MaxBatch rows through process_leads
LeadElse == Lead(<<"C">>, <<"b", ".", "c">>)

Row(lead, raises) ==
    [lead |-> lead,
     answer |-> [raises |-> raises,
                 owner_name |-> IF raises = "none" THEN "ann" ELSE ""]]

\* the rows of a batch: the leads at a.c, one of them with a failing scraper,
\* a lead at b.c with and without a failing analyzer, and the leads without
\* a usable website
BatchRows ==
    {Row(LeadAcme, "none"), Row(LeadAcmeTyped, "none"), Row(LeadOther, "scraper"),
     Row(LeadElse, "none"), Row(LeadElse, "analyzer"),
     Row(Lead(<<"B">>, <<>>), "none"), Row(Lead(<<"B">>, <<" ", "N", "/", "a">>), "none")}

Batches == UNION {[1..n -> BatchRows] : n \in 0..MaxBatch}

BatchCall ==
    \E leads \in Batches, use_cache \in BOOLEAN : process_leads(leads, use_cache)

NextBatch == BatchCall

SpecBatch == Init /\ [][NextBatch]_vars

\* the three tables filled by their simplest writers, damaged, and checked
StoreGeoStep == GeocodeAttempt([status |-> "OK", coords |-> <<10, 20>>])

\* get_place_details called for place 1 or 2
StoreDetailsCall ==
    /\ frame.pc = "idle"
    /\ \E place_id \in {1, 2} :
        \E got \in {get_place_details(place_details_cache, place_id,
                                      DetailsOK(1)[place_id])} :
            /\ place_details_cache' = got.dc
            /\ last' = [op |-> "get_place_details", location |-> <<>>, args |-> NoArgs,
                        ok |-> got.exc = "", coords |-> NoCoords,
                        err |-> GeoError(<<>>, got.exc, ""),
                        result |-> got.details, trace |-> got.trace]
    /\ UNCHANGED <<now, ticks, search_cache, processed_leads, frame>>

StoreLeadCall ==
    \E lead \in {LeadAcme, LeadOther} :
        process_lead(lead, TRUE, [raises |-> "none", owner_name |-> "ann"])

NextStore ==
    DamagedGeoCall \/ StoreGeoStep \/ StoreDetailsCall \/ StoreLeadCall
        \/ CorruptSearchRow \/ CorruptDetailsRow \/ CorruptLeadRow \/ verify_cache

SpecStore == Init /\ [][NextStore]_vars

-----------------------------------------------------------------------------
(* LeadGenerator.clear_cache, clear_geocode_cache and the cache over time *)

\* the mutated cutoff test: a row exactly days_old days old goes too
StaleInclusive(timestamp, days_old) == timestamp <= now - Days(days_old)

\* WHERE timestamp < cutoff_date, cutoff_date = now - timedelta(days=days_old)
Stale(timestamp, days_old) == timestamp < now - Days(days_old)

\* LeadGenerator.clear_cache: two DELETE statements, on search_cache and on
\* place_details_cache
clear_cache(days_old) ==
    /\ frame.pc = "idle"
    /\ search_cache' = IF days_old > 0
                       THEN {r \in search_cache : ~Stale(r.timestamp, days_old)}
                       ELSE {}
    /\ place_details_cache' = IF days_old > 0
                              THEN {r \in place_details_cache : ~Stale(r.timestamp, days_old)}
                              ELSE {}
    /\ last' = [op |-> "clear_cache", location |-> <<>>,
                args |-> [days_old |-> days_old], ok |-> TRUE, coords |-> NoCoords,
                err |-> NoErr, result |-> <<>>, trace |-> <<>>]
    /\ UNCHANGED <<now, ticks, processed_leads, frame>>

\* the keywords of the model that contain the text geocode
GeocodeWords == {"geocode", "geocoder"}

\* search_params LIKE '%geocode%' on the stored parameter text: the text of
\* a geocode entry has the field name, the text of a tile entry may have
\* the word in its keyword
LikeGeocode(search_params) ==
    \/ "geocode" \in DOMAIN search_params.v
    \/ /\ "keyword" \in DOMAIN search_params.v
       /\ search_params.v.keyword \in GeocodeWords

\* LeadGenerator.clear_geocode_cache: location is a string, <<>> for the
\* call without argument (None and '' are both falsy)
clear_geocode_cache(location) ==
    /\ frame.pc = "idle"
    /\ search_cache' =
            IF location # <<>>
            THEN {r \in search_cache : r.cache_key # _cache_key(GeocodeParams(location))}
            ELSE {r \in search_cache : ~LikeGeocode(r.search_params)}
    /\ last' = [op |-> "clear_geocode_cache", location |-> location, args |-> NoArgs,
                ok |-> TRUE, coords |-> NoCoords, err |-> NoErr, result |-> <<>>,
                trace |-> <<>>]
    /\ UNCHANGED <<now, ticks, place_details_cache, processed_leads, frame>>

\* get_place_details called on its own for place_id, the details endpoint
\* answering `answer`
PlaceDetailsCall(place_id, answer) ==
    /\ frame.pc = "idle"
    /\ \E got \in {get_place_details(place_details_cache, place_id, answer)} :
        /\ place_details_cache' = got.dc
        /\ last' = [op |-> "get_place_details", location |-> <<>>,
                    args |-> [place_id |-> place_id, answer |-> answer],
                    ok |-> got.exc = "", coords |-> NoCoords,
                    err |-> GeoError(<<>>, got.exc, ""),
                    result |-> got.details, trace |-> got.trace]
    /\ UNCHANGED <<now, ticks, search_cache, processed_leads, frame>>

\* the three tables written, aged and cleared: the clock is read 7 days
\* after the start, an hour later, then 6d23h later, ...
ClearTick == Tick(IF ticks = 0 THEN Days(7) ELSE IF ticks % 2 = 1 THEN 1 ELSE Days(7) - 1)

ClearGeoCall == geocode_location(<<"a">>)

ClearGeoStep == \E resp \in {r \in GeoResponses : r.status = "OK"} : GeocodeAttempt(resp)

ClearDetailsCall == \E v \in {1, 2} : PlaceDetailsCall(1, DetailsOK(v)[1])

ClearLeadCall ==
    \E owner_name \in {"ann", "bob"} :
        process_lead(LeadAcme, FALSE, [raises |-> "none", owner_name |-> owner_name])

\* the buttons of the cache page: 30 days and everything; 7 days besides
DaysOld == {0, 7, 30}

ClearCacheCall == \E days_old \in DaysOld : clear_cache(days_old)

ClearGeocodeCall == \E location \in {<<>>, <<" ", "A">>} : clear_geocode_cache(location)

NextClear ==
    ClearGeoCall \/ ClearGeoStep \/ ClearDetailsCall \/ ClearLeadCall \/ ClearTick
        \/ ClearCacheCall \/ ClearGeocodeCall

SpecClear == Init /\ [][NextClear]_vars

-----------------------------------------------------------------------------
(* _search_places and get_place_details on their own *)

\* _search_places called for one area: pages are the service's answers to
\* the successive nearby-search requests, answers its details answers
SearchPlacesCall(pages, answers, max_results) ==
    /\ frame.pc = "idle"
    /\ \E st \in {_search_places(place_details_cache, pages, answers, max_results)} :
        /\ place_details_cache' = st.dc
        /\ last' = [op |-> "_search_places", location |-> <<>>,
                    args |-> [pages |-> pages, answers |-> answers,
                              max_results |-> max_results],
                    ok |-> st.exc = "", coords |-> NoCoords,
                    err |-> GeoError(<<>>, st.exc, ""),
                    result |-> st.leads, trace |-> st.trace]
    /\ UNCHANGED <<now, ticks, search_cache, processed_leads, frame>>

\* areas of one, two and three pages: a place on two pages, a page after a
\* page without token, a refused later page, a refused first page
PagerAreas ==
    {<<Page(<<1, 2>>, TRUE), Page(<<2, 3>>, FALSE)>>,
     <<Page(<<3, 1>>, FALSE), Page(<<4>>, FALSE)>>,
     <<Page(<<1, 2>>, TRUE), NoPage("OVER_QUERY_LIMIT"), Page(<<3>>, FALSE)>>,
     <<Page(<<2>>, TRUE), Page(<<3>>, TRUE), Page(<<4>>, FALSE)>>,
     <<NoPage("ZERO_RESULTS"), Page(<<1>>, FALSE)>>}

\* every place has details, or place 2 has none
PagerDetails == {DetailsOK(1), [DetailsOK(1) EXCEPT ![2] = NoDetails("NOT_FOUND")]}

PagerCall ==
    \E pages \in PagerAreas, answers \in PagerDetails, max_results \in 0..MaxResults :
        SearchPlacesCall(pages, answers, max_results)

PagerDetailsCall ==
    \E place_id \in {1, 2}, answers \in PagerDetails :
        PlaceDetailsCall(place_id, answers[place_id])

\* the clock is read 29d23h after the start, an hour later, ...
PagerTick == Tick(IF ticks % 2 = 0 THEN Days(30) - 1 ELSE 1)

NextPager == PagerCall \/ PagerDetailsCall \/ PagerTick

SpecPager == Init /\ [][NextPager]_vars

-----------------------------------------------------------------------------
(* The retry loop of geocode_location, run to its end *)

RetryCall == \E location \in Locations : geocode_location(location)

RetryStep == \E resp \in GeoResponses : GeocodeAttempt(resp)

NextRetry == RetryCall \/ RetryStep

\* a request that was sent is answered or fails: the call in progress goes on
SpecRetry == Init /\ [][NextRetry]_vars /\ WF_vars(RetryStep)

-----------------------------------------------------------------------------
(* The processed leads over time *)

\* the leads at a.c processed with and without the cache
AgeLeadCall ==
    \E lead \in {LeadAcme, LeadAcmeTyped, LeadOther}, use_cache \in BOOLEAN,
       owner_name \in {"ann", "bob"} :
        process_lead(lead, use_cache, [raises |-> "none", owner_name |-> owner_name])

\* the clock is read 30 days and an hour later, past both TTLs of the
\* generator's tables
AgeTick == Tick(Days(30) + 1)

NextAge == AgeLeadCall \/ AgeTick

SpecAge == Init /\ [][NextAge]_vars

-----------------------------------------------------------------------------
(* The tiled search under different budgets *)

\* 22 places on the two pages of tile 1, so that a per-tile budget of 20
\* and one of 21 gather different lists
WorldTwentyTwo ==
    [nearby |-> <<
        <<Page([k \in 1..20 |-> k], TRUE), Page(<<21, 22>>, FALSE)>>,
        <<Page(<<23>>, FALSE)>>,
        <<NoPage("ZERO_RESULTS")>>,
        <<Page(<<24>>, FALSE)>> >>,
     details |-> DetailsOK(1)]

\* max_results 1 and 2 give a per-tile budget of 20, 84 gives 21
BudgetCall ==
    \E max_results \in {1, 2, 84} :
        split_region_search("dentist", <<"a">>, max_results, default_splits)

BudgetStep == \E world \in {WorldTwentyTwo, WorldOverlap} : RegionTiles(world)

\* between two calls the clock may be read four days later
NextBudget == BudgetCall \/ RegionGeoStep \/ BudgetStep \/ Tick(Days(4))

SpecBudget == Init /\ [][NextBudget]_vars

-----------------------------------------------------------------------------
(* clear_geocode_cache over a cache that holds tile entries *)

\* searches for two business types, one of which has the word in its name
KeywordCall ==
    \E business_type \in {"dentist", "geocoder"} :
        split_region_search(business_type, <<"a">>, 1, default_splits)

NextKeyword == KeywordCall \/ RegionGeoStep \/ RegionStep \/ ClearGeocodeCall

SpecKeyword == Init /\ [][NextKeyword]_vars

-----------------------------------------------------------------------------
(* Two sessions on one cache database *)

\* Every browser session runs main() with its own components (st.session_state)
\* on the same lead_cache.db.  Each sqlite3 statement of a session is one
\* step: a SELECT reads the committed tables; INSERT OR REPLACE takes the
\* write lock of the database and is seen by the others at conn.commit().

\* a call of a session: process_lead(lead, use_cache=True) or
\* geocode_location(location)
SessionCalls ==
    {[kind |-> "lead", lead |-> l, location |-> <<>>] : l \in {LeadAcme, LeadAcmeTyped}}
        \cup {[kind |-> "geocode", lead |-> Lead(<<>>, <<>>), location |-> <<"a">>]}

IdleSession ==
    [pc |-> "idle", call |-> [kind |-> "none", lead |-> Lead(<<>>, <<>>), location |-> <<>>],
     result |-> <<>>, written_at |-> 0,
     pending |-> [search_cache |-> {}, processed_leads |-> <<>>], calls |-> 0]

\* the sessions, the holder of the write lock (0: nobody), the rows put so
\* far and the number of times the collaborators and the geocoder were used
Sessions ==
    IF frame.pc = "sessions" THEN frame
    ELSE [pc |-> "sessions", sess |-> [s \in 1..2 |-> IdleSession], lock |-> 0,
          lead_puts |-> {}, geocode_puts |-> {}, enrichments |-> 0, geocodings |-> 0]

SessionReturn(s, call, result, events) ==
    [op |-> IF call.kind = "lead" THEN "process_lead" ELSE "geocode_location",
     location |-> call.location, args |-> [lead |-> call.lead, use_cache |-> TRUE],
     ok |-> TRUE, coords |-> NoCoords, err |-> NoErr, result |-> result,
     trace |-> <<Event("session", s)>> \o events]

\* the cache lookup of the call: _get_cached_lead, or _get_cached_search of
\* the geocode parameters
SessionLookup(s, call) ==
    LET cached == IF call.kind = "lead" THEN _get_cached_lead(processed_leads, call.lead)
                  ELSE _get_cached_search(search_cache, GeocodeParams(call.location))
        hit == cached.st = "value" /\ cached.v # <<>>
        me == Sessions.sess[s]
    IN  /\ frame.pc \in {"idle", "sessions"}
        /\ me.pc = "idle"
        /\ me.calls < MaxCalls
        /\ IF hit
           THEN /\ frame' = [Sessions EXCEPT !.sess[s].calls = me.calls + 1]
                /\ last' = SessionReturn(s, call, cached.v, <<Event("lookup", "hit")>>)
           ELSE /\ frame' = [Sessions EXCEPT !.sess[s].pc = "enrich",
                                              !.sess[s].call = call]
                /\ UNCHANGED last
        /\ UNCHANGED <<now, ticks, search_cache, place_details_cache, processed_leads>>

\* after a miss: the collaborators of process_lead run and the result is
\* built, or the geocoding endpoint answers OK
SessionEnrich(s) ==
    /\ frame.pc = "sessions"
    /\ frame.sess[s].pc = "enrich"
    /\ \E owner_name \in {"ann", "bob"}, coords \in Coords :
        LET call == frame.sess[s].call
        IN  frame' =
                IF call.kind = "lead"
                THEN [frame EXCEPT
                        !.sess[s].pc = "execute",
                        !.sess[s].result =
                            EnrichedResult(call.lead, [raises |-> "none",
                                                       owner_name |-> owner_name]),
                        !.enrichments = frame.enrichments + 1]
                ELSE [frame EXCEPT !.sess[s].pc = "execute",
                                   !.sess[s].result = coords,
                                   !.geocodings = frame.geocodings + 1]
    /\ UNCHANGED <<now, ticks, search_cache, place_details_cache, processed_leads, last>>

\* cursor.execute("INSERT OR REPLACE ...") gave up waiting for the write
\* lock: sqlite3.OperationalError, which process_lead turns into an error
\* result and geocode_location into its ValueError
SessionBusy(s) ==
    /\ frame.pc = "sessions"
    /\ frame.sess[s].pc = "execute"
    /\ frame.lock # 0
    /\ frame' = [frame EXCEPT
                    !.sess[s] = [IdleSession EXCEPT !.calls = frame.sess[s].calls + 1]]
    /\ last' = [SessionReturn(s, frame.sess[s].call,
                              IF frame.sess[s].call.kind = "lead"
                              THEN _create_empty_result(frame.sess[s].call.lead,
                                                        "database is locked")
                              ELSE <<>>,
                              <<Event("lookup", "miss")>>)
                    EXCEPT !.ok = frame.sess[s].call.kind = "lead",
                           !.err = GeoError(frame.sess[s].call.location,
                                            "database is locked", "")]
    /\ UNCHANGED <<now, ticks, search_cache, place_details_cache, processed_leads>>

\* cursor.execute("INSERT OR REPLACE ...") of _save_to_cache: the statement
\* has the write lock, reads the clock and replaces the row in the session's
\* own transaction
SessionExecute(s) ==
    /\ frame.pc = "sessions"
    /\ frame.sess[s].pc = "execute"
    /\ frame.lock = 0
    /\ LET call == frame.sess[s].call
           result == frame.sess[s].result
           pending ==
                IF call.kind = "lead"
                THEN [search_cache |-> search_cache,
                      processed_leads |->
                        LeadProcessor_save_to_cache(processed_leads, call.lead, result)]
                ELSE [search_cache |->
                        _save_to_cache(search_cache, GeocodeParams(call.location), result),
                      processed_leads |-> processed_leads]
       IN  frame' = [frame EXCEPT
                        !.sess[s].pc = "commit",
                        !.sess[s].pending = pending,
                        !.sess[s].written_at = now,
                        !.lock = s,
                        !.lead_puts =
                            IF call.kind = "lead"
                            THEN @ \cup {[lead_id |-> _lead_cache_key(call.lead),
                                          website |-> LeadWebsite(call.lead),
                                          processed_data |-> json_dumps(result),
                                          timestamp |-> now]}
                            ELSE @,
                        !.geocode_puts =
                            IF call.kind = "geocode"
                            THEN @ \cup {[cache_key |->
                                            _cache_key(GeocodeParams(call.location)),
                                          search_params |->
                                            json_dumps(GeocodeParams(call.location)),
                                          results |-> json_dumps(result),
                                          timestamp |-> now]}
                            ELSE @]
    /\ UNCHANGED <<now, ticks, search_cache, place_details_cache, processed_leads, last>>

\* conn.commit(): the transaction becomes the state of the database, the
\* lock is released and the call returns its result
SessionCommit(s) ==
    /\ frame.pc = "sessions"
    /\ frame.sess[s].pc = "commit"
    /\ search_cache' = frame.sess[s].pending.search_cache
    /\ processed_leads' = frame.sess[s].pending.processed_leads
    /\ frame' = [frame EXCEPT !.sess[s] = [IdleSession EXCEPT !.calls = frame.sess[s].calls + 1],
                              !.lock = 0]
    /\ last' = SessionReturn(s, frame.sess[s].call, frame.sess[s].result,
                             <<Event("lookup", "miss"),
                               Event("commit", frame.sess[s].written_at)>>)
    /\ UNCHANGED <<now, ticks, place_details_cache>>

\* an hour passes while the sessions are at work
SessionTick ==
    /\ frame.pc \in {"idle", "sessions"}
    /\ ticks < MaxTicks
    /\ now' = now + 1
    /\ ticks' = ticks + 1
    /\ UNCHANGED <<search_cache, place_details_cache, processed_leads, frame, last>>

NextSessions ==
    \/ \E s \in 1..2 : \E call \in SessionCalls : SessionLookup(s, call)
    \/ \E s \in 1..2 : SessionEnrich(s)
    \/ \E s \in 1..2 : SessionExecute(s) \/ SessionBusy(s)
    \/ \E s \in 1..2 : SessionCommit(s)
    \/ SessionTick

SpecSessions == Init /\ [][NextSessions]_vars

-----------------------------------------------------------------------------
(* Properties *)

GeoRequests(trace) == EventsOf(trace, "geocode_request")

GeoSleeps(trace) == EventsOf(trace, "sleep")

EventKinds(trace) == [k \in 1..Len(trace) |-> trace[k].e]

\* trim and lowercase, as the specification words the normalisation
TrimLower(s) == lower(strip(s))

\* this step is the start of geocode_location(location) from the idle state
GeocodeCalled(location) ==
    /\ frame.pc = "idle"
    /\ \/ /\ frame'.pc = "geocode"
          /\ frame'.op = "geocode_location"
          /\ frame'.location = location
       \/ /\ frame'.pc = "idle"
          /\ last'.op = "geocode_location"
          /\ last'.location = location

\* C2: once geocode_location(L) has succeeded the entry sits under the
\* trimmed, lowercased location, and a call for any L' with the same
\* normal form made while the entry is younger than 7 days returns the
\* cached coordinates without a request to the geocoding endpoint.
C2_SecondGeocodeFromCache ==
    /\ [](last.op = "geocode_location" /\ last.ok
            => \E r \in search_cache :
                /\ r.cache_key = [md5 |-> [geocode |-> TrimLower(last.location)]]
                /\ r.results = json_dumps(last.coords)
                /\ now - r.timestamp < Days(7))
    /\ [][\A location \in Locations : \A r \in search_cache :
            ( /\ GeocodeCalled(location)
              /\ r.cache_key = [md5 |-> [geocode |-> TrimLower(location)]]
              /\ r.results.valid
              /\ now - r.timestamp < Days(7) )
            => /\ frame'.pc = "idle"
               /\ last'.ok
               /\ last'.coords = r.results.v
               /\ GeoRequests(last'.trace) = <<>>
               /\ search_cache' = search_cache]_vars

\* C2 witness: " A " is answered from an entry written at an earlier hour
C2_Witness ==
    /\ last.op = "geocode_location"
    /\ last.location = <<" ", "A", " ">>
    /\ last.ok
    /\ GeoRequests(last.trace) = <<>>
    /\ \E r \in search_cache : r.results.v = last.coords /\ r.timestamp < now

\* C3: a search entry written at T is returned by the lookup exactly while
\* now - T < 7 days (a hit at T+6d23h, a miss at T+7d and at T+7d1h).
C3_SearchTTL ==
    \A r \in search_cache :
        r.results.valid =>
            LET got == _get_cached_search(search_cache, r.search_params.v)
                age == now - r.timestamp
            IN  /\ age < 7 * 24 => got = Value(r.results.v)
                /\ age >= 7 * 24 => got = None

\* C3 witness: one entry is 6d23h old and hit, another 7d1h old and missed
C3_Witness ==
    \E r1, r2 \in search_cache :
        /\ now - r1.timestamp = 7 * 24 - 1
        /\ _get_cached_search(search_cache, r1.search_params.v) = Value(r1.results.v)
        /\ now - r2.timestamp = 7 * 24 + 1
        /\ _get_cached_search(search_cache, r2.search_params.v) = None

\* C4: when every request is answered OVER_QUERY_LIMIT or REQUEST_DENIED,
\* geocode_location sends exactly 3 requests, sleeps 1 then 2 between them,
\* does not sleep after the third, and fails; no call sends a 4th request.
C4_QuotaBackoff ==
    /\ ( /\ last.op = "geocode_location"
         /\ GeoRequests(last.trace) # <<>>
         /\ \A k \in 1..Len(GeoRequests(last.trace)) :
                GeoRequests(last.trace)[k] \in {"OVER_QUERY_LIMIT", "REQUEST_DENIED"} )
       => /\ ~last.ok
          /\ EventKinds(last.trace) =
                <<"geocode_lookup", "geocode_request", "sleep", "geocode_request",
                  "sleep", "geocode_request">>
          /\ GeoSleeps(last.trace) = <<1, 2>>
    /\ Len(GeoRequests(frame.trace)) < 3
    /\ Len(GeoRequests(last.trace)) <= 3

\* C4 witness: a call that met the quota answer three times
C4_Witness ==
    /\ last.op = "geocode_location"
    /\ GeoRequests(last.trace) =
            <<"OVER_QUERY_LIMIT", "REQUEST_DENIED", "OVER_QUERY_LIMIT">>

\* C5: a ZERO_RESULTS answer, on whichever attempt, ends the call with a
\* failure at once: it is the last event of the call, no sleep follows it
\* and no request is sent after it.
C5_ZeroResultsNoRetry ==
    /\ \A k \in 1..Len(last.trace) :
            ( /\ last.op = "geocode_location"
              /\ last.trace[k] = Event("geocode_request", "ZERO_RESULTS") )
            => /\ k = Len(last.trace)
               /\ ~last.ok
               /\ last.err.msg = "Location not found"
               /\ Len(GeoSleeps(last.trace)) = Len(GeoRequests(last.trace)) - 1
    /\ \A k \in 1..Len(frame.trace) :
            frame.trace[k] # Event("geocode_request", "ZERO_RESULTS")

\* C5 witness: ZERO_RESULTS arrives on the second attempt
C5_Witness ==
    /\ last.op = "geocode_location"
    /\ GeoRequests(last.trace) = <<"OVER_QUERY_LIMIT", "ZERO_RESULTS">>

PlaceIds(leads) == [k \in 1..Len(leads) |-> leads[k].place_id]

\* C1: whatever the cache holds and the services answer, the list that
\* split_region_search returns has at most max_results places and no two of
\* them carry the same place_id.
C1_AtMostNUnique ==
    last.op = "split_region_search"
        => /\ Len(last.result) <= last.args.max_results
           /\ \A i, j \in 1..Len(last.result) :
                i # j => last.result[i].place_id # last.result[j].place_id

\* C1 witness: four tiles delivering 1,2,2,3 / 3,1 / nothing / 4 are merged
\* into four places, and a search for two places is cut to two
C1_Witness ==
    /\ last.op = "split_region_search"
    /\ \/ last.args.max_results = 10 /\ PlaceIds(last.result) = <<1, 2, 3, 4>>
       \/ last.args.max_results = 2 /\ PlaceIds(last.result) = <<1, 2>>
    /\ EventsOf(last.trace, "tile_lookup") # <<>>

\* the size of all_leads when the event at position k of the trace happens:
\* what the latest merge before k left
RECURSIVE Held(_, _)
Held(trace, k) ==
    IF k <= 1 THEN 0
    ELSE IF trace[k - 1].e = "merged" THEN trace[k - 1].x
    ELSE Held(trace, k - 1)

C7_CorruptIsMiss ==
    last.op \in {"geocode_location", "split_region_search"}
        => /\ last.err.msg # "JSONDecodeError"
           /\ (last.op = "geocode_location" /\ ~last.ok
                    => GeoRequests(last.trace) # <<>>)

\* the calls of the scraper, the first collaborator of every enrichment
Scrapes(trace) == EventsOf(trace, "scrape_website")

\* equal company name and website after trim and lowercase
EquivalentLeads(l1, l2) ==
    /\ TrimLower(l1.company_name) = TrimLower(l2.company_name)
    /\ TrimLower(l1.Website) = TrimLower(l2.Website)

\* C6: two leads equal after trim and lowercase in company name and
\* website, processed one after the other with use_cache = true, cost at
\* most one enrichment in total and the second call is answered from the
\* processed-lead cache (a first call that ends on a collaborator's
\* exception stores nothing and is left aside here).
C6_EnrichOnce ==
    [][ ( /\ last.op = "process_lead"
          /\ last'.op = "process_lead"
          /\ last.args.use_cache
          /\ last'.args.use_cache
          /\ EquivalentLeads(last.args.lead, last'.args.lead)
          /\ last.result.processed )
        => /\ Len(Scrapes(last.trace)) + Len(Scrapes(last'.trace)) <= 1
           /\ Scrapes(last'.trace) = <<>> ]_vars

\* C8: when the row that the lookup of process_lead meets does not decode,
\* the call enriches the lead, reports no decoding error, and its fresh
\* result takes the row's place: the next lookup for the lead returns it.
C8_CorruptLeadReplaced ==
    ( /\ last.op = "process_lead"
      /\ EventsOf(last.trace, "lead_lookup") = <<"corrupt">> )
        => /\ Scrapes(last.trace) # <<>>
           /\ last.result.error # "JSONDecodeError"
           /\ last.result.processed
                => _get_cached_lead(processed_leads, last.args.lead) = Value(last.result)

\* the keys verify_cache reports for a table
Reported(result, t) ==
    IF t \in DOMAIN result.corrupted_entries THEN result.corrupted_entries[t] ELSE {}

\* the lead_ids of the processed_leads rows that do not decode
CorruptLeadIds ==
    {processed_leads[k].lead_id :
        k \in {n \in 1..Len(processed_leads) : ~processed_leads[n].processed_data.valid}}

\* C9: verify_cache reports the row count of each table and, for each of
\* search_cache, place_details_cache and processed_leads, exactly the keys
\* of the rows that do not decode; it reports the cache healthy iff no row
\* of any of the three is undecodable.
C9_VerifyReportsAll ==
    last.op = "verify_cache"
        => /\ last.result.table_counts["search_cache"] = Cardinality(search_cache)
           /\ last.result.table_counts["place_details_cache"]
                = Cardinality(place_details_cache)
           /\ last.result.table_counts["processed_leads"] = Len(processed_leads)
           /\ Reported(last.result, "search_cache")
                = {r.cache_key : r \in {q \in search_cache : ~q.results.valid}}
           /\ Reported(last.result, "place_details_cache")
                = {r.place_id : r \in {q \in place_details_cache : ~q.details.valid}}
           /\ Reported(last.result, "processed_leads") = CorruptLeadIds
           /\ last.result.cache_health = "good"
                <=> /\ \A r \in search_cache : r.results.valid /\ r.search_params.valid
                    /\ \A r \in place_details_cache : r.details.valid
                    /\ CorruptLeadIds = {}

\* the requests a call sent to the geocoding, nearby-search and details
\* endpoints
ExternalCalls(trace) ==
    SelectSeq(trace, LAMBDA ev : ev.e \in {"geocode_request", "nearby_request",
                                          "details_request"})

\* a completed search with 2 splits and max_results = 10 that met six new
\* places on tile 1 and filled up on tile 2
SixPerTileRun(call) ==
    /\ call.op = "split_region_search"
    /\ call.args.max_results = 10
    /\ call.args.splits = 2
    /\ EventsOf(call.trace, "merged") = <<6, 10>>
    /\ Len(call.result) = 10

\* C11: when the search of the six-places-per-tile scenario is repeated with
\* the same inputs right after it completed, the repeated call sends no
\* geocoding, nearby-search or details request and returns the same 10
\* places.
C11_RerunFromCache ==
    [][ ( /\ SixPerTileRun(last)
          /\ frame.pc = "tiles"
          /\ last'.op = "split_region_search"
          /\ last'.args = last.args
          /\ last'.location = last.location )
        => /\ ExternalCalls(last'.trace) = <<>>
           /\ last'.result = last.result ]_vars

\* C11 witness: a search that returned the ten places of tiles 1 and 2
\* without a single request
C11_Witness ==
    /\ SixPerTileRun(last)
    /\ ExternalCalls(last.trace) = <<>>
    /\ EventsOf(last.trace, "tile_lookup") = <<1, 2>>
    /\ PlaceIds(last.result) = <<1, 2, 3, 4, 5, 6, 7, 8, 9, 10>>

\* the geocoder's own failures, as opposed to what a tile raises
GeocoderFailed(call) ==
    call.err.msg \in {"Location not found", "API limit reached or request denied",
                      "Network error", "Geocoding error"}

\* C12: when geocode_location fails inside split_region_search no tile is
\* queried and the caller of split_region_search gets the geocoder's error
\* with the location string, not a normal return value.
C12_GeocodeFailureSurfaced ==
    (last.op = "split_region_search" /\ GeocoderFailed(last))
        => /\ EventsOf(last.trace, "tile_lookup") = <<>>
           /\ last.err.location = last.location
           /\ ~last.ok

\* the largest number in a sequence of naturals, 0 for the empty one
RECURSIVE MaxOf(_)
MaxOf(xs) == IF xs = <<>> THEN 0 ELSE Max(Head(xs), MaxOf(Tail(xs)))

\* C13: an error at tile k (lookup, nearby search or details request
\* raising) costs none of the places gathered before k, and the search goes
\* on with tile k+1: the call returns the places accumulated, and unless the
\* list filled up every tile was looked up.
C13_TileFailureContained ==
    (last.op = "split_region_search" /\ ~GeocoderFailed(last))
        => LET held == MaxOf(EventsOf(last.trace, "merged"))
           IN  /\ Len(last.result) >= Min(last.args.max_results, held)
               /\ held < last.args.max_results
                    => EventsOf(last.trace, "tile_lookup")
                        = [t \in 1..(last.args.splits * last.args.splits) |-> t]

\* the kind of the event that follows the first occurrence of ev in a trace
RECURSIVE KindAfter(_, _)
KindAfter(trace, ev) ==
    IF Len(trace) < 2 THEN "none"
    ELSE IF Head(trace) = ev THEN trace[2].e
    ELSE KindAfter(Tail(trace), ev)

\* the search_cache row of tile t of the search in progress holds the empty
\* list and is younger than 7 days
FreshEmptyTile(t) ==
    \E r \in search_cache :
        /\ r.cache_key = _cache_key(TileParams(frame.coords,
                                               (t - 1) \div frame.args.splits,
                                               (t - 1) % frame.args.splits,
                                               frame.args.business_type,
                                               frame.args.splits))
        /\ r.results = json_dumps(<<>>)
        /\ now - r.timestamp < Days(7)

\* C14: a tile whose pager returned the empty list has that list stored
\* under its key, and a search that looks the tile up within 7 days takes
\* the stored list: no nearby-search request follows the lookup.
C14_EmptyTileServed ==
    [][ \A t \in 1..4 :
          ( /\ frame.pc = "tiles"
            /\ last'.op = "split_region_search"
            /\ t <= frame.args.splits * frame.args.splits
            /\ FreshEmptyTile(t)
            /\ \E k \in 1..Len(last'.trace) : last'.trace[k] = Event("tile_lookup", t) )
          => KindAfter(last'.trace, Event("tile_lookup", t)) # "nearby_request" ]_vars

\* the collaborators a call reached
Enrichment(trace) ==
    SelectSeq(trace, LAMBDA ev : ev.e \in {"scrape_website", "extract_emails",
                                          "analyze_content", "find_emails_with_llm"})

\* the website is empty or the n/a marker once trimmed and lowercased
NoWebsite(lead) == TrimLower(lead.Website) \in {<<>>, <<"n", "/", "a">>}

\* C15: process_lead on a lead whose website is empty or 'n/a' (any case,
\* whitespace around it ignored) returns an unprocessed record with empty
\* error, calls no collaborator, does not look the lead up in
\* processed_leads and leaves the table as it was, whatever use_cache is.
C15_NoWebsiteShortCircuit ==
    [][ (last'.op = "process_lead" /\ NoWebsite(last'.args.lead))
        => /\ ~last'.result.processed
           /\ last'.result.error = ""
           /\ last'.trace = <<>>
           /\ processed_leads' = processed_leads ]_vars

\* C15 witness: the lead marked " N/a" was processed with the cache enabled
\* over a table that holds rows; it came back unprocessed
C15_Witness ==
    /\ last.op = "process_lead"
    /\ last.args.lead.Website = <<" ", "N", "/", "a">>
    /\ last.args.use_cache
    /\ ~last.result.processed
    /\ last.trace = <<>>
    /\ processed_leads # <<>>

\* the rows stored under the lead's own lead_id (at most one: primary key)
IdentityRows(table, lead) ==
    SelectSeq(table, LAMBDA r : r.lead_id = _lead_cache_key(lead))

\* C16: with use_cache true and a decodable entry stored under the lead's
\* identity, process_lead returns that stored record, calls no collaborator
\* and writes nothing to processed_leads.
C16_IdentityHitReturned ==
    [][ ( /\ last'.op = "process_lead"
          /\ last'.args.use_cache
          /\ ~NoWebsite(last'.args.lead)
          /\ IdentityRows(processed_leads, last'.args.lead) # <<>>
          /\ IdentityRows(processed_leads, last'.args.lead)[1].processed_data.valid )
        => /\ last'.result
                = IdentityRows(processed_leads, last'.args.lead)[1].processed_data.v
           /\ Enrichment(last'.trace) = <<>>
           /\ processed_leads' = processed_leads ]_vars

\* the call went through every collaborator without an exception
EnrichmentCompleted(call) ==
    /\ call.op = "process_lead"
    /\ EventsOf(call.trace, "find_emails_with_llm") # <<>>
    /\ call.result.processed

\* C17: after a process_lead whose enrichment completed, with use_cache true
\* or false, the row of the lead's identity holds the result just returned;
\* and a call with use_cache false on a lead with a website goes to the
\* collaborators without looking the lead up.
C17_WriteThrough ==
    /\ EnrichmentCompleted(last)
        => /\ Len(IdentityRows(processed_leads, last.args.lead)) = 1
           /\ IdentityRows(processed_leads, last.args.lead)[1].processed_data
                = json_dumps(last.result)
    /\ (last.op = "process_lead" /\ ~last.args.use_cache /\ ~NoWebsite(last.args.lead))
        => /\ EventsOf(last.trace, "scrape_website") # <<>>
           /\ EventsOf(last.trace, "lead_lookup") = <<>>

\* C17 witness: a call with the cache disabled enriched the lead and its row,
\* now the last of a table of two, holds the new owner
C17_Witness ==
    /\ EnrichmentCompleted(last)
    /\ ~last.args.use_cache
    /\ last.result.owner_name = "bob"
    /\ Len(processed_leads) = 2
    /\ processed_leads[1].processed_data.valid
    /\ processed_leads[1].processed_data.v.owner_name = "ann"
    /\ processed_leads[2].lead_id = _lead_cache_key(last.args.lead)
    /\ processed_leads[2].processed_data = json_dumps(last.result)

\* the events of a batch between the process_lead call of row k and the
\* next row
RECURSIVE UpToNextRow(_)
UpToNextRow(trace) ==
    IF trace = <<>> THEN <<>>
    ELSE IF Head(trace).e \in {"process_lead", "skip_duplicate"} THEN <<>>
    ELSE <<Head(trace)>> \o UpToNextRow(Tail(trace))

RECURSIVE RowTrace(_, _)
RowTrace(trace, k) ==
    IF trace = <<>> THEN <<>>
    ELSE IF Head(trace).e = "process_lead" /\ Head(trace).x = k
         THEN UpToNextRow(Tail(trace))
         ELSE RowTrace(Tail(trace), k)

\* the rows of the last batch handed to process_lead, and the rows skipped
Called(call) == EventsOf(call.trace, "process_lead")

Skipped(call) == EventsOf(call.trace, "skip_duplicate")

Among(xs) == {xs[i] : i \in 1..Len(xs)}

\* the collaborators were called for row k of the batch and one of them
\* raised
RowRaised(call, k) ==
    /\ call.args.leads[k].answer.raises # "none"
    /\ Enrichment(RowTrace(call.trace, k)) # <<>>

\* C18: an exception of a collaborator during process_lead comes back as a
\* record of that lead with processed = false and the exception's message
\* as error; in a batch the loop goes on: every row is either handed to
\* process_lead or skipped as a duplicate, and every row handed to
\* process_lead, the failing ones included, yields one output record.
C18_FailureContained ==
    last.op = "process_leads"
        => /\ Len(last.result) = Len(Called(last))
           /\ \A k \in 1..Len(last.args.leads) :
                k \in Among(Called(last)) \cup Among(Skipped(last))
           /\ \A i \in 1..Len(Called(last)) :
                RowRaised(last, Called(last)[i])
                    => /\ ~last.result[i].processed
                       /\ last.result[i].error
                            = last.args.leads[Called(last)[i]].answer.raises
                       /\ last.result[i].company_name
                            = strip(last.args.leads[Called(last)[i]].lead.company_name)

\* C18 witness: the scraper raised for the first row of a batch of two; the
\* first record carries the error, the second row was enriched
C18_Witness ==
    /\ last.op = "process_leads"
    /\ Len(last.args.leads) = 2
    /\ RowRaised(last, 1)
    /\ Called(last) = <<1, 2>>
    /\ ~last.result[1].processed
    /\ last.result[1].error = "scraper"
    /\ last.result[2].processed
    /\ Enrichment(RowTrace(last.trace, 2)) # <<>>

\* row k of the batch has a usable website that an earlier row has too,
\* both trimmed and lowercased
DuplicateRow(leads, k) ==
    /\ ~NoWebsite(leads[k].lead)
    /\ \E j \in 1..(k - 1) :
            TrimLower(leads[j].lead.Website) = TrimLower(leads[k].lead.Website)

\* C19: in one process_leads batch a row is skipped exactly when its
\* normalized website is usable and occurred in an earlier row; a skipped
\* row is not handed to process_lead and adds no output record; every other
\* row, those with empty or 'n/a' website included, is handed to
\* process_lead once: so process_lead runs at most once per usable website,
\* whatever use_cache and the table are.
C19_BatchDedup ==
    last.op = "process_leads"
        => /\ \A k \in 1..Len(last.args.leads) :
                /\ k \in Among(Skipped(last)) <=> DuplicateRow(last.args.leads, k)
                /\ k \in Among(Called(last)) <=> ~DuplicateRow(last.args.leads, k)
           /\ Len(Called(last)) + Len(Skipped(last)) = Len(last.args.leads)
           /\ Len(last.result) = Len(Called(last))
           /\ \A i, j \in 1..Len(Called(last)) :
                ( /\ i # j
                  /\ ~NoWebsite(last.args.leads[Called(last)[i]].lead) )
                => TrimLower(last.args.leads[Called(last)[i]].lead.Website)
                    # TrimLower(last.args.leads[Called(last)[j]].lead.Website)

\* C19 witness: a batch of "Ac" at "a.c" and "AC " at " A.c" with the cache
\* disabled: the second row was skipped, one record came out
C19_Witness ==
    /\ last.op = "process_leads"
    /\ ~last.args.use_cache
    /\ Len(last.args.leads) = 2
    /\ last.args.leads[1].lead = LeadAcme
    /\ last.args.leads[2].lead = LeadAcmeTyped
    /\ Called(last) = <<1>>
    /\ Skipped(last) = <<2>>
    /\ Len(last.result) = 1

\* the cause the error of a failed request names, by the answer's status
Cause(status) ==
    CASE status = "ZERO_RESULTS" -> "Location not found"
      [] status \in {"OVER_QUERY_LIMIT", "REQUEST_DENIED"} ->
            "API limit reached or request denied"
      [] status = "RequestException" -> "Network error"
      [] OTHER -> "Geocoding error"

LastOf(xs) == xs[Len(xs)]

\* C20: a geocode_location call that fails (zero results, quota or denial
\* after the retries, unknown status, transport failure) raises an error
\* that carries the location string as it was passed and the cause of the
\* last answer, and returns no coordinates; a call that returns coordinates
\* either sent no request and returns the pair stored under the location's
\* key, or returns the pair of the OK answer that ended it (stored under
\* that key by the call).
C20_FailuresCarryCause ==
    last.op = "geocode_location"
        => /\ ~last.ok
                => /\ last.err.location = last.location
                   /\ last.err.msg # ""
                   /\ last.coords = NoCoords
                   /\ GeoRequests(last.trace) # <<>>
                        => /\ LastOf(GeoRequests(last.trace)) # "OK"
                           /\ last.err.msg = Cause(LastOf(GeoRequests(last.trace)))
           /\ last.ok
                => /\ last.coords \in Coords
                   /\ \E r \in search_cache :
                        /\ r.cache_key = _cache_key(GeocodeParams(last.location))
                        /\ r.results = json_dumps(last.coords)
                   /\ GeoRequests(last.trace) # <<>>
                        => LastOf(GeoRequests(last.trace)) = "OK"

\* C20 witness: the location " A " failed on a transport error at the third
\* request; the error names " A " and the network as the cause
C20_Witness ==
    /\ last.op = "geocode_location"
    /\ ~last.ok
    /\ last.location = <<" ", "A", " ">>
    /\ last.err.location = <<" ", "A", " ">>
    /\ GeoRequests(last.trace) = <<"OVER_QUERY_LIMIT", "REQUEST_DENIED", "RequestException">>
    /\ last.err.msg = "Network error"

\* the last call wrote the coordinates of an OK answer to search_cache
GeocodePut(call) ==
    call.op = "geocode_location" /\ call.ok /\ GeoRequests(call.trace) # <<>>

\* the last call wrote the details of an OK answer to place_details_cache
DetailsPut(call) ==
    /\ call.op = "get_place_details"
    /\ EventsOf(call.trace, "details_request") # <<>>
    /\ call.result # Empty

\* C21: in each of the three tables there is at most one row per key,
\* whatever was written and cleared before; and right after a write the row
\* of the written key is the written payload with the time of the write,
\* nothing of an earlier row of that key being left, so that the entry is a
\* hit again for a full TTL.
C21_Upsert ==
    /\ \A r1, r2 \in search_cache : r1.cache_key = r2.cache_key => r1 = r2
    /\ \A r1, r2 \in place_details_cache : r1.place_id = r2.place_id => r1 = r2
    /\ \A i, j \in 1..Len(processed_leads) :
            processed_leads[i].lead_id = processed_leads[j].lead_id => i = j
    /\ GeocodePut(last)
        => /\ [cache_key |-> _cache_key(GeocodeParams(last.location)),
               search_params |-> json_dumps(GeocodeParams(last.location)),
               results |-> json_dumps(last.coords),
               timestamp |-> now] \in search_cache
           /\ _get_cached_search(search_cache, GeocodeParams(last.location))
                = Value(last.coords)
    /\ DetailsPut(last)
        => [place_id |-> last.args.place_id, details |-> json_dumps(last.result),
            timestamp |-> now] \in place_details_cache
    /\ EnrichmentCompleted(last)
        => IdentityRows(processed_leads, last.args.lead)
            = <<[lead_id |-> _lead_cache_key(last.args.lead),
                 website |-> TrimLower(last.args.lead.Website),
                 processed_data |-> json_dumps(last.result),
                 timestamp |-> now]>>

\* C21 witness: 7 days and an hour after the start the location was
\* geocoded again and its row, rewritten, stands beside older rows of the
\* other tables
C21_Witness ==
    /\ GeocodePut(last)
    /\ now = Days(7) + 1
    /\ \E r \in search_cache : r.timestamp = now /\ r.results = json_dumps(<<30, 40>>)
    /\ \E r \in place_details_cache : r.timestamp < now
    /\ Len(processed_leads) = 1
    /\ processed_leads[1].timestamp < now

\* C29: clear_cache(days_old) with days_old > 0 leaves in search_cache and
\* place_details_cache exactly the rows written at most days_old days ago,
\* each unchanged; with days_old = 0 it empties both tables; processed_leads
\* is the same before and after.
C29_ClearByAge ==
    [][ last'.op = "clear_cache"
        => /\ search_cache' =
                IF last'.args.days_old = 0 THEN {}
                ELSE {r \in search_cache : now - r.timestamp <= Days(last'.args.days_old)}
           /\ place_details_cache' =
                IF last'.args.days_old = 0 THEN {}
                ELSE {r \in place_details_cache :
                            now - r.timestamp <= Days(last'.args.days_old)}
           /\ processed_leads' = processed_leads ]_vars

\* C29 witness: clear_cache(7) ran when one geocode row was exactly 7 days
\* old; the row is still there, and so is the processed lead
C29_Witness ==
    /\ last.op = "clear_cache"
    /\ last.args.days_old = 7
    /\ now = Days(7)
    /\ \E r \in search_cache : r.timestamp = 0
    /\ \E r \in place_details_cache : r.timestamp = now
    /\ processed_leads # <<>>

\* the rows of place p written less than 30 days ago
FreshDetails(table, p) ==
    {r \in table : r.place_id = p /\ now - r.timestamp < DETAILS_TTL}

DetailsRequests(trace, p) ==
    SelectSeq(trace, LAMBDA ev : ev.e = "details_request" /\ ev.x = p)

LeadsOf(leads, p) == SelectSeq(leads, LAMBDA lead : lead.place_id = p)

\* C22: a get_place_details(p) that finds details of p stored less than 30
\* days ago returns them, sends no details request and writes nothing,
\* whether it is called on its own or for a hit of any page of any search;
\* without such a row an OK answer is returned and stored under p at the
\* current time, and any other answer yields the empty details and stores
\* nothing.
C22_DetailsCacheFirst ==
    [][ /\ last'.op = "get_place_details"
            => LET p == last'.args.place_id
                   fresh == FreshDetails(place_details_cache, p)
               IN  /\ fresh # {}
                        => /\ \E r \in fresh : last'.result = r.details.v
                           /\ last'.trace = <<>>
                           /\ place_details_cache' = place_details_cache
                   /\ (fresh = {} /\ last'.args.answer.status # "OK")
                        => /\ last'.result = Empty
                           /\ place_details_cache' = place_details_cache
                   /\ (fresh = {} /\ last'.args.answer.status = "OK")
                        => /\ last'.result = last'.args.answer.result
                           /\ [place_id |-> p, details |-> json_dumps(last'.result),
                               timestamp |-> now] \in place_details_cache'
        /\ last'.op = "_search_places"
            => \A p \in 1..4 :
                LET fresh == FreshDetails(place_details_cache, p)
                    rows(table) == {r \in table : r.place_id = p}
                IN  /\ fresh # {}
                        => /\ DetailsRequests(last'.trace, p) = <<>>
                           /\ rows(place_details_cache') = rows(place_details_cache)
                           /\ \A k \in 1..Len(last'.result) :
                                last'.result[k].place_id = p
                                    => \E r \in fresh :
                                        last'.result[k].company_name = r.details.v.name
                    /\ last'.args.answers[p].status = "OK"
                        => Len(DetailsRequests(last'.trace, p)) <= 1
                    /\ (fresh = {} /\ last'.args.answers[p].status # "OK")
                        => /\ rows(place_details_cache') = rows(place_details_cache)
                           /\ LeadsOf(last'.result, p) = <<>> ]_vars

\* C22 witness: 29 days and 23 hours after the details of place 1 were
\* stored, a search met place 1 and took its details from the table
C22_Witness ==
    /\ last.op = "_search_places"
    /\ now = Days(30) - 1
    /\ \E r \in place_details_cache : r.place_id = 1 /\ r.timestamp = 0
    /\ LeadsOf(last.result, 1) # <<>>
    /\ DetailsRequests(last.trace, 1) = <<>>
    /\ EventsOf(last.trace, "nearby_request") # <<>>

\* the statuses the geocoder's if/elif chain names
KnownStatuses == {"OK", "ZERO_RESULTS", "OVER_QUERY_LIMIT", "REQUEST_DENIED"}

\* an answer that arrived and whose status the chain does not name
UnknownStatus(status) == status \notin KnownStatuses \cup {"RequestException"}

\* C23: an answer whose status is none of OK, ZERO_RESULTS, OVER_QUERY_LIMIT,
\* REQUEST_DENIED ends geocode_location with an error at once, at the first,
\* second or third attempt: it is the last event of the call, no sleep and
\* no request follow it, and no call goes on after such an answer.
C23_UnknownStatusFailsAtOnce ==
    /\ frame.pc = "geocode"
        => \A k \in 1..Len(GeoRequests(frame.trace)) :
                ~UnknownStatus(GeoRequests(frame.trace)[k])
    /\ last.op = "geocode_location"
        => \A k \in 1..Len(GeoRequests(last.trace)) :
                UnknownStatus(GeoRequests(last.trace)[k])
                    => /\ k = Len(GeoRequests(last.trace))
                       /\ LastOf(last.trace) = Event("geocode_request",
                                                     GeoRequests(last.trace)[k])
                       /\ Len(GeoSleeps(last.trace)) = k - 1
                       /\ ~last.ok
                       /\ last.err.msg = "Geocoding error"
                       /\ last.err.status = GeoRequests(last.trace)[k]

\* C23 witness: the third attempt, after two retried answers, got
\* INVALID_REQUEST and the call failed on it
C23_Witness ==
    /\ last.op = "geocode_location"
    /\ GeoRequests(last.trace) = <<"REQUEST_DENIED", "RequestException", "INVALID_REQUEST">>
    /\ GeoSleeps(last.trace) = <<1, 2>>
    /\ ~last.ok
    /\ last.err.msg = "Geocoding error"

\* transport failures and the two retryable statuses
Retried == RetryableStatuses \cup {"RequestException"}

\* C24: a transport failure is retried like a quota error: whatever mix of
\* transport failures and retryable statuses the attempts meet, every
\* attempt but the last is followed by a sleep of 1 then 2, at most 3
\* requests are sent, the call gives up on such an answer only at the third
\* request, returns as soon as an answer is OK, and every call that sent a
\* request comes to its end.
C24_TransportRetried ==
    /\ [](Len(GeoRequests(frame.trace)) <= max_retries)
    /\ [](last.op = "geocode_location"
            => LET rs == GeoRequests(last.trace)
                   n == Len(rs)
               IN  /\ n <= 3
                   /\ \A k \in 1..(n - 1) : rs[k] \in Retried
                   /\ GeoSleeps(last.trace) = [k \in 1..(n - 1) |-> Pow2(k - 1)]
                   /\ (n > 0 /\ rs[n] \in Retried) => (n = 3 /\ ~last.ok)
                   /\ (n > 0 /\ rs[n] = "OK") => last.ok)
    /\ (frame.pc = "geocode") ~> (frame.pc = "idle")

\* C24 witness: two transport failures, then OK: the call slept 1 and 2 and
\* returned the coordinates
C24_Witness ==
    /\ last.op = "geocode_location"
    /\ GeoRequests(last.trace) = <<"RequestException", "RequestException", "OK">>
    /\ GeoSleeps(last.trace) = <<1, 2>>
    /\ last.ok
    /\ last.coords = <<10, 20>>

\* the details of place p can be had: a row younger than 30 days, or an OK
\* answer of the details endpoint
Resolvable(table, answers, p) ==
    FreshDetails(table, p) # {} \/ answers[p].status = "OK"

\* the place ids of the hits of pages 1..k that can be resolved, in order
RECURSIVE ResolvableHits(_, _, _, _)
ResolvableHits(table, answers, pages, k) ==
    IF k = 0 THEN <<>>
    ELSE ResolvableHits(table, answers, pages, k - 1)
            \o SelectSeq([h \in 1..Len(pages[k].results) |-> pages[k].results[h].place_id],
                         LAMBDA p : Resolvable(table, answers, p))

NearbyRequests(trace) == EventsOf(trace, "nearby_request")

\* the pages of a call that were read: requested and answered OK
PagesRead(call) ==
    LET n == Len(NearbyRequests(call.trace))
    IN  IF n > 0 /\ call.args.pages[n].status # "OK" THEN n - 1 ELSE n

\* C25: _search_places returns at most max_results places; it sends a
\* further nearby-search request only if the page before was OK, carried a
\* token and left the budget unfilled, and stops otherwise; when a page is
\* refused it returns, without raising, the places of the pages read before.
C25_PagerStops ==
    [][ last'.op = "_search_places"
        => LET pages == last'.args.pages
               max_results == last'.args.max_results
               n == Len(NearbyRequests(last'.trace))
               got(k) == Len(ResolvableHits(place_details_cache, last'.args.answers,
                                            pages, k))
           IN  /\ last'.ok
               /\ Len(last'.result) <= max_results
               /\ n = 0 <=> max_results = 0
               /\ n <= Len(pages)
               /\ \A k \in 1..(n - 1) :
                    /\ pages[k].status = "OK"
                    /\ pages[k].next_page_token
                    /\ got(k) < max_results
               /\ n > 0 => \/ pages[n].status # "OK"
                           \/ ~pages[n].next_page_token
                           \/ got(n) >= max_results
               /\ PlaceIds(last'.result)
                    = SubSeq(ResolvableHits(place_details_cache, last'.args.answers,
                                            pages, PagesRead(last')),
                             1, Min(max_results, got(PagesRead(last')))) ]_vars

\* C25 witness: the second page was refused with the budget of two not yet
\* filled; the call returned the place gathered from the first page
C25_Witness ==
    /\ last.op = "_search_places"
    /\ last.ok
    /\ last.args.pages[2].status = "OVER_QUERY_LIMIT"
    /\ NearbyRequests(last.trace) = <<FALSE, TRUE>>
    /\ PlaceIds(last.result) = <<1>>
    /\ last.args.max_results = 2

\* C26: in a _search_places call the first nearby-search request carries no
\* token and nothing precedes it; every later request carries the token of
\* the page before and the event just before it is the settle delay of 2
\* seconds, taken after that page was read; there is no other settle delay.
C26_SettleBeforeToken ==
    last.op = "_search_places"
        => /\ \A k \in 1..Len(last.trace) :
                last.trace[k].e = "nearby_request"
                    => IF last.trace[k].x
                       THEN /\ k > 2
                            /\ last.trace[k - 1] = Event("settle_sleep", 2)
                            /\ \E j \in 1..(k - 2) : last.trace[j].e = "nearby_request"
                       ELSE k = 1
           /\ Len(EventsOf(last.trace, "settle_sleep"))
                = Len(SelectSeq(NearbyRequests(last.trace), LAMBDA token : token))

\* C26 witness: three pages were requested, the second and the third after a
\* settle delay each
C26_Witness ==
    /\ last.op = "_search_places"
    /\ NearbyRequests(last.trace) = <<FALSE, TRUE, TRUE>>
    /\ EventsOf(last.trace, "settle_sleep") = <<2, 2>>

\* C27: every place _search_places returns is built from a hit of a page it
\* read and from that place's resolved details, whole (name and address of
\* the details, the hit's place_id); a hit whose details are empty adds no
\* record and takes nothing of the budget: the call returns as many places
\* as there are resolvable hits on the pages read, up to max_results.
C27_UnresolvedDropped ==
    [][ last'.op = "_search_places"
        => /\ \A k \in 1..Len(last'.result) :
                LET lead == last'.result[k]
                    p == lead.place_id
                IN  /\ \E n \in 1..PagesRead(last') :
                            \E h \in 1..Len(last'.args.pages[n].results) :
                                last'.args.pages[n].results[h].place_id = p
                    /\ Resolvable(place_details_cache, last'.args.answers, p)
                    /\ \/ \E r \in FreshDetails(place_details_cache, p) :
                                lead = MakeLead(Stub(p), r.details.v)
                       \/ /\ FreshDetails(place_details_cache, p) = {}
                          /\ lead = MakeLead(Stub(p), last'.args.answers[p].result)
                    /\ lead.full_address # <<>>
           /\ \A p \in 1..4 :
                ~Resolvable(place_details_cache, last'.args.answers, p)
                    => LeadsOf(last'.result, p) = <<>>
           /\ Len(last'.result)
                = Min(last'.args.max_results,
                      Len(ResolvableHits(place_details_cache, last'.args.answers,
                                         last'.args.pages, PagesRead(last')))) ]_vars

\* C27 witness: place 2 had no details on either page; the call asked for
\* them twice and returned places 1 and 3, its budget of two
C27_Witness ==
    /\ last.op = "_search_places"
    /\ last.args.max_results = 2
    /\ Len(DetailsRequests(last.trace, 2)) = 2
    /\ PlaceIds(last.result) = <<1, 3>>

RECURSIVE Concat(_)
Concat(lists) == IF lists = <<>> THEN <<>> ELSE Head(lists) \o Concat(Tail(lists))

\* the first k places of a list without those whose place_id occurred
\* earlier in it
RECURSIVE FirstAppearances(_, _)
FirstAppearances(leads, k) ==
    IF k = 0 THEN <<>>
    ELSE IF \E j \in 1..(k - 1) : leads[j].place_id = leads[k].place_id
         THEN FirstAppearances(leads, k - 1)
         ELSE Append(FirstAppearances(leads, k - 1), leads[k])

\* the reference merge of the lists the tiles delivered
ReferenceMerge(lists, max_results) ==
    LET all == Concat(lists)
        unique == FirstAppearances(all, Len(all))
    IN  SubSeq(unique, 1, Min(max_results, Len(unique)))

\* C28: the tiles are visited in row-major order, and the list
\* split_region_search returns is the lists the tiles delivered, joined in
\* that order, without the places whose place_id occurred earlier, cut to
\* max_results.
C28_ReferenceMerge ==
    last.op = "split_region_search"
        => /\ EventsOf(last.trace, "tile_lookup")
                = [t \in 1..Len(EventsOf(last.trace, "tile_lookup")) |-> t]
           /\ last.result = ReferenceMerge(EventsOf(last.trace, "tile_leads"),
                                           last.args.max_results)

\* C30: a processed_leads entry is returned whatever its age: a lookup
\* (process_lead with use_cache) of a lead whose identity has a decodable
\* row, written now or any time before and not replaced or removed since,
\* returns the record of that row without calling a collaborator.
C30_LeadEntryNeverExpires ==
    [][ ( /\ last'.op = "process_lead"
          /\ last'.args.use_cache
          /\ ~NoWebsite(last'.args.lead)
          /\ \E k \in 1..Len(processed_leads) :
              /\ processed_leads[k].lead_id = _lead_cache_key(last'.args.lead)
              /\ processed_leads[k].processed_data.valid
              /\ now - processed_leads[k].timestamp >= 0 )
        => /\ \E k \in 1..Len(processed_leads) :
                /\ processed_leads[k].lead_id = _lead_cache_key(last'.args.lead)
                /\ last'.result = processed_leads[k].processed_data.v
           /\ Enrichment(last'.trace) = <<>> ]_vars

\* C33: a record that process_lead returns from processed_leads was stored
\* under the identity of the requested lead: it is the record of the row
\* whose lead_id is the lead's own, and it carries the lead's normalized
\* company name.
C33_SameIdentityOnly ==
    [][ ( /\ last'.op = "process_lead"
          /\ EventsOf(last'.trace, "lead_lookup") = <<"hit">> )
        => /\ \E k \in 1..Len(processed_leads) :
                /\ processed_leads[k].lead_id = _lead_cache_key(last'.args.lead)
                /\ processed_leads[k].processed_data = json_dumps(last'.result)
           /\ lower(_clean_string(last'.result.company_name))
                = lower(_clean_string(last'.args.lead.company_name)) ]_vars

\* C34: when process_lead(lead, use_cache false) has completed its
\* enrichment with record R, the process_lead(lead, use_cache true) that
\* comes next returns R, whatever else the table holds.
C34_RoundTrip ==
    [][ ( /\ EnrichmentCompleted(last)
          /\ ~last.args.use_cache
          /\ last'.op = "process_lead"
          /\ last'.args.use_cache
          /\ last'.args.lead = last.args.lead )
        => last'.result = last.result ]_vars

\* the call ended in the handler of process_lead
EnrichmentRaised(call) ==
    /\ call.op = "process_lead"
    /\ Enrichment(call.trace) # <<>>
    /\ ~call.result.processed

\* C36: a process_lead whose enrichment raises leaves processed_leads as it
\* was; every decodable row holds a record with processed true and no error,
\* so a lookup never returns a failure; and a call on a lead with a usable
\* website that no row matches goes to the collaborators.
C36_FailureNotCached ==
    /\ [][ EnrichmentRaised(last') => processed_leads' = processed_leads ]_vars
    /\ [](\A k \in 1..Len(processed_leads) :
            processed_leads[k].processed_data.valid
                => /\ processed_leads[k].processed_data.v.processed
                   /\ processed_leads[k].processed_data.v.error = "")
    /\ []( ( /\ last.op = "process_lead"
             /\ EventsOf(last.trace, "lead_lookup") = <<"hit">> )
           => last.result.processed )
    /\ [][ ( /\ last'.op = "process_lead"
             /\ ~NoWebsite(last'.args.lead)
             /\ MatchingLeadRows(processed_leads, last'.args.lead) = <<>> )
           => EventsOf(last'.trace, "scrape_website") # <<>> ]_vars

\* C36 witness: the analyzer raised during a call on a lead of which the
\* table holds no row, other rows being there, and no row was added
C36_Witness ==
    /\ EnrichmentRaised(last)
    /\ last.result.error = "analyzer"
    /\ processed_leads # <<>>
    /\ IdentityRows(processed_leads, last.args.lead) = <<>>

\* the three tables
Tables == <<search_cache, place_details_cache, processed_leads>>

\* C35: no step of a geocode_location call that is still trying or that
\* fails changes a table; a step of the retry loop writes search_cache only
\* when the answer is OK, and then the coordinates of that answer under the
\* normalized location; and a call for the same location that follows a
\* call the endpoint failed goes to the endpoint again.
C35_FailedGeocodeWritesNothing ==
    /\ [][ (frame'.pc = "geocode" \/ (last'.op = "geocode_location" /\ ~last'.ok))
            => UNCHANGED Tables ]_vars
    /\ [][ (frame.pc = "geocode" /\ search_cache' # search_cache)
            => /\ last'.op = "geocode_location" /\ last'.ok
               /\ LastOf(GeoRequests(last'.trace)) = "OK"
               /\ \E r \in search_cache' :
                    /\ r.cache_key = _cache_key(GeocodeParams(last'.location))
                    /\ r.results = json_dumps(last'.coords)
                    /\ search_cache' \ {r} \subseteq search_cache ]_vars
    /\ [][ ( /\ last.op = "geocode_location" /\ ~last.ok
             /\ GeoRequests(last.trace) # <<>>
             /\ \E location \in Locations :
                    /\ NormalizeLocation(location) = NormalizeLocation(last.location)
                    /\ GeocodeCalled(location) )
            => frame'.pc = "geocode" ]_vars

\* C35 witness: a call for "b" failed after three refused requests while
\* the coordinates of another location were stored, and no row for "b"
\* exists
C35_Witness ==
    /\ last.op = "geocode_location" /\ ~last.ok
    /\ last.location = <<"b">>
    /\ Len(GeoRequests(last.trace)) = 3
    /\ search_cache # {}
    /\ \A r \in search_cache : r.cache_key # _cache_key(GeocodeParams(<<"b">>))

\* the items of a tile's search_params in the order lines 264-269 write them
TileItems(params) ==
    <<<<"location", params.location>>, <<"radius", params.radius>>,
      <<"keyword", params.keyword>>, <<"key", params.key>>>>

\* the dict a serialization stands for
DictOf(text) ==
    [key \in {text[k][1] : k \in 1..Len(text)} |->
        text[CHOOSE k \in 1..Len(text) : text[k][1] = key][2]]

\* search_params of tile t of a search from `coords`
TileParamsOf(coords, args, t) ==
    TileParams(coords, (t - 1) \div args.splits, (t - 1) % args.splits,
               args.business_type, args.splits)

\* the fresh, decodable, non-empty rows stored under the key of tile t of
\* the search in progress
FreshTileRows(t) ==
    {r \in search_cache :
        /\ r.cache_key = _cache_key(TileParamsOf(frame.coords, frame.args, t))
        /\ r.timestamp > now - SEARCH_TTL
        /\ r.results.valid
        /\ r.results.v # <<>>}

\* this step is not the tile loop of a search, or tile t is not looked up
\* in it, or its key holds no such row, or the search takes the stored list
\* as the tile's leads and sends no nearby-search request for it
TileServedIfFresh(t) ==
    ( /\ frame.pc = "tiles"
      /\ last'.op = "split_region_search"
      /\ t <= frame.args.splits * frame.args.splits
      /\ FreshTileRows(t) # {}
      /\ \E k \in 1..Len(last'.trace) : last'.trace[k] = Event("tile_lookup", t) )
    => /\ KindAfter(last'.trace, Event("tile_lookup", t)) = "tile_leads"
       /\ \E r \in FreshTileRows(t) :
            EventsOf(last'.trace, "tile_leads")[t] = r.results.v

\* C32: the text that is hashed for a tile is the same for every order of
\* the four fields center, radius, keyword and API key and holds nothing
\* else, max_results in particular; and a search that looks up a tile whose
\* key holds a non-empty list younger than 7 days, stored by a search with
\* whatever max_results, takes that list as the tile's leads and sends no
\* nearby-search request for the tile.
C32_KeyIgnoresBudget ==
    /\ [](\A t \in 1..4 :
            (frame.pc = "tiles" /\ t <= frame.args.splits * frame.args.splits)
            => \A f \in Permutations(1..4) :
                LET params == TileParamsOf(frame.coords, frame.args, t)
                    items == [n \in 1..4 |-> TileItems(params)[f[n]]]
                IN  /\ param_str(items) = param_str(TileItems(params))
                    /\ DictOf(param_str(items)) = params
                    /\ DOMAIN params = {"location", "radius", "keyword", "key"})
    /\ [][ \A t \in 1..4 : TileServedIfFresh(t) ]_vars

\* C32 witness: a search with max_results 84, whose per-tile budget is 21,
\* was served the 20 places that a search with a budget of 20 had stored
\* for tile 1, and went to the service for the other tiles
C32_Witness ==
    /\ last.op = "split_region_search"
    /\ last.args.max_results = 84
    /\ results_per_region(84, last.args.splits) = 21
    /\ KindAfter(last.trace, Event("tile_lookup", 1)) = "tile_leads"
    /\ PlaceIds(EventsOf(last.trace, "tile_leads")[1]) = [k \in 1..20 |-> k]
    /\ KindAfter(last.trace, Event("tile_lookup", 2)) = "nearby_request"
    /\ PlaceIds(last.result) = [k \in 1..20 |-> k] \o <<23, 24>>

\* the row was written by geocode_location: its parameters are the
\* normalized location and nothing else
GeocodeEntry(r) == DOMAIN r.search_params.v = {"geocode"}

\* C37: clear_geocode_cache(location) removes the geocode row of the
\* normalized location and nothing else, clear_geocode_cache() removes the
\* geocode rows and nothing else; place_details_cache and processed_leads
\* stay as they were; and a geocode_location of a cleared location that
\* comes next, called directly or by a search, goes to the geocoding
\* endpoint.
C37_ClearGeocodeOnly ==
    /\ [][ (last'.op = "clear_geocode_cache" /\ frame.pc = "idle" /\ frame'.pc = "idle")
            => /\ search_cache' =
                    IF last'.location # <<>>
                    THEN {r \in search_cache :
                            ~(/\ GeocodeEntry(r)
                              /\ r.search_params.v.geocode
                                    = NormalizeLocation(last'.location))}
                    ELSE {r \in search_cache : ~GeocodeEntry(r)}
               /\ UNCHANGED <<place_details_cache, processed_leads>> ]_vars
    /\ [][ ( /\ last.op = "clear_geocode_cache"
             /\ frame.pc = "idle"
             /\ frame'.pc # "idle" \/ last'.op = "geocode_location"
             /\ last.location # <<>>
                   => NormalizeLocation(IF frame'.pc # "idle" THEN frame'.location
                                        ELSE last'.location)
                        = NormalizeLocation(last.location) )
            => frame'.pc = "geocode" ]_vars

\* the pager ran for tile t of the call and returned
PagerReturned(call, t) ==
    /\ call.op = "split_region_search"
    /\ t <= Len(EventsOf(call.trace, "tile_leads"))
    /\ KindAfter(call.trace, Event("tile_lookup", t)) = "nearby_request"

\* C38: for every tile whose pager ran and returned, stopped by the budget,
\* by the last page or by a non-success status on the first or a later
\* page, the row of the tile's key holds the returned list, written at the
\* time of the call; and a search that looks up, within 7 days, a tile whose
\* row holds a non-empty list takes that list and sends no nearby-search
\* request for the tile.
C38_PartialListStored ==
    /\ [](\A t \in 1..4 :
            PagerReturned(last, t)
            => \E r \in search_cache :
                /\ r.cache_key = _cache_key(TileParamsOf(last.coords, last.args, t))
                /\ r.results = json_dumps(EventsOf(last.trace, "tile_leads")[t])
                /\ r.timestamp = now
                /\ \A q \in search_cache : q.cache_key = r.cache_key => q = r)
    /\ [][ \A t \in 1..4 : TileServedIfFresh(t) ]_vars

\* C38 witness: tile 1 held the one place that a pager had gathered before
\* its second page was refused (the other hit of the first page did not
\* resolve), and a search took it from the cache without a request
C38_Witness ==
    /\ last.op = "split_region_search"
    /\ last.args.max_results = 1
    /\ EventsOf(last.trace, "nearby_request") = <<>>
    /\ Len(EventsOf(last.trace, "tile_leads")) = 1
    /\ PlaceIds(EventsOf(last.trace, "tile_leads")[1]) = <<1>>
    /\ PlaceIds(last.result) = <<1>>

\* the rows of a processed_leads table under one lead_id
RowsOfLead(table, lead_id) == SelectSeq(table, LAMBDA r : r.lead_id = lead_id)

\* C31: with two sessions putting to the same key in any interleaving, a
\* key never has more than one row, every row is the row of one put as a
\* whole (its payload with its own time of writing), the row after a commit
\* is the committing session's, and a lookup that hits returns the payload
\* of a put, whole.
C31_LastWriteWins ==
    /\ [](frame.pc = "sessions"
            => /\ \A r \in search_cache :
                    /\ r \in frame.geocode_puts
                    /\ \A q \in search_cache : q.cache_key = r.cache_key => q = r
               /\ \A k \in 1..Len(processed_leads) :
                    /\ processed_leads[k] \in frame.lead_puts
                    /\ Len(RowsOfLead(processed_leads, processed_leads[k].lead_id)) = 1
               /\ EventsOf(last.trace, "lookup") = <<"hit">>
                    => IF last.op = "process_lead"
                       THEN \E r \in frame.lead_puts :
                                r.processed_data = json_dumps(last.result)
                       ELSE \E r \in frame.geocode_puts :
                                r.results = json_dumps(last.result))
    /\ [][ \A s \in 1..2 :
            (frame.pc = "sessions" /\ frame.sess[s].pc = "commit"
                /\ frame'.sess[s].pc = "idle")
            => LET call == frame.sess[s].call
               IN  IF call.kind = "lead"
                   THEN \E r \in frame.lead_puts :
                            /\ RowsOfLead(processed_leads', _lead_cache_key(call.lead)) = <<r>>
                            /\ r.processed_data = json_dumps(frame.sess[s].result)
                            /\ r.timestamp = frame.sess[s].written_at
                   ELSE \E r \in search_cache' :
                            /\ r.cache_key = _cache_key(GeocodeParams(call.location))
                            /\ r.results = json_dumps(frame.sess[s].result)
                            /\ r.timestamp = frame.sess[s].written_at ]_vars

\* C31 witness: both sessions have put a record for the same lead, with
\* different owners and an hour apart, session 2 having looked the lead up
\* before the first row was committed; session 2 has just committed and the
\* table holds its row alone
C31_Witness ==
    /\ frame.pc = "sessions"
    /\ \E a \in frame.lead_puts, b \in frame.lead_puts :
        /\ a.lead_id = b.lead_id
        /\ a.processed_data.v.owner_name = "ann"
        /\ b.processed_data.v.owner_name = "bob"
        /\ b.timestamp = a.timestamp + 1
        /\ processed_leads = <<b>>
        /\ last.op = "process_lead"
        /\ EventsOf(last.trace, "session") = <<2>>
        /\ EventsOf(last.trace, "lookup") = <<"miss">>
        /\ EventsOf(last.trace, "commit") = <<b.timestamp>>

\* C39: however the lookups, enrichments and writes of two sessions that
\* process equivalent leads with use_cache true interleave, the
\* collaborators run at most once for the identity.
C39_EnrichedOnceAcrossSessions ==
    frame.pc = "sessions" => frame.enrichments <= 1

====
